---- MODULE Spec2Model ----
(***************************************************************************)
(* Verification model of the ragdoll composite nutrition model.            *)
(*                                                                         *)
(* Two revisions of the component tree live in the repository:             *)
(*   - src/ragdoll/core/composite.py : Nutrients, IngredientComponent,     *)
(*     BasketComponent, MealComponent (specification Spec);                *)
(*   - src/ragdoll/component.py      : Composite, Ingredient               *)
(*     (specification SpecTree).                                           *)
(* The Nutrients containers of core/composite.py and of nutrient.py, with  *)
(* the Amount of amount.py, are modelled entry by entry (specifications    *)
(* SpecNut and SpecSum); meals built from stored records are SpecMeal.     *)
(* Smaller specifications follow single operations: key_matching          *)
(* (SpecKeys), the Amount arithmetic (SpecAmount), the division of         *)
(* nutrient.py (SpecPDiv), add and sub of ingredients (SpecSub), one add   *)
(* call frame by frame (SpecRun), scaling (SpecScale) and the dict objects *)
(* behind the meta attribute (SpecMeta).                                   *)
(*                                                                         *)
(* Quantities are integers: the arithmetic of the model is exact, Python's *)
(* float rounding is not modelled.  A Nutrients container is a mapping     *)
(* abbreviation -> value together with the identity (id) of the Python     *)
(* object, so that two components holding the same container are told     *)
(* apart from two components holding equal containers.                     *)
(***************************************************************************)
EXTENDS Integers, Sequences, FiniteSets, TLC

VARIABLES pool, calls, last, heap, tlast, box, nlast

vars == <<pool, calls, last, heap, tlast, box, nlast>>

(***************************************************************************)
(* Bounds of the model.                                                    *)
(***************************************************************************)
\* largest number of components the client holds at once
MaxPool == 2
\* largest number of calls that change what the client holds
MaxCalls == 4
\* largest scalar used by multiply and divide
MaxK == 2

(***************************************************************************)
(* Nutrients (core/composite.py).                                          *)
(***************************************************************************)
\* the int 0 that Python's sum() starts from: sum([]) == 0
NutZero == [zero |-> TRUE, id |-> 0, m |-> <<>>]

\* a Nutrients object: identity and abbr -> value mapping
Nut(i, m) == [zero |-> FALSE, id |-> i, m |-> m]

RECURSIVE IdsOf(_)
\* the identities of the Nutrients objects held in the tree of c
IdsOf(c) ==
  LET RECURSIVE Below(_)
      Below(j) == IF j > Len(c.kids) THEN {}
                  ELSE IdsOf(c.kids[j].c) \cup Below(j + 1)
  IN  (IF c.nut.zero THEN {} ELSE {c.nut.id}) \cup Below(1)

\* the identities in use: those of the objects the client holds
Used == UNION {IdsOf(c) : c \in pool}

\* object allocation: the first identity from i on that no live object has
Fresh(i) ==
  CHOOSE j \in i..(i + Cardinality(Used)) :
    j \notin Used /\ \A l \in i..(j - 1) : l \in Used

\* Nutrients.add(other, method="intersect") on the mappings
NMapAdd(m1, m2) == [a \in (DOMAIN m1) \cap (DOMAIN m2) |-> m1[a] + m2[a]]

\* self + other as Python evaluates it for operands that are Nutrients or
\* the int 0: `n + 0` and `0 + n` (via __radd__) return n itself, `0 + 0`
\* is 0, two Nutrients give a new container (identity i).
NAdd(x, y, i) ==
  IF x.zero THEN [v |-> y, n |-> i]
  ELSE IF y.zero THEN [v |-> x, n |-> i]
  ELSE [v |-> Nut(Fresh(i), NMapAdd(x.m, y.m)), n |-> Fresh(i) + 1]

\* Nutrients.multiply(scalar) / int 0 * scalar
NMul(x, k, i) ==
  IF x.zero THEN [v |-> NutZero, n |-> i]
  ELSE [v |-> Nut(Fresh(i), [a \in DOMAIN x.m |-> x.m[a] * k]),
        n |-> Fresh(i) + 1]

\* Nutrients.divide(scalar) / int 0 / scalar (exact division only)
NDiv(x, k, i) ==
  IF x.zero THEN [v |-> NutZero, n |-> i]
  ELSE [v |-> Nut(Fresh(i), [a \in DOMAIN x.m |-> x.m[a] \div k]),
        n |-> Fresh(i) + 1]

\* Nutrients.__getitem__(list): KeyError when a key is absent, TypeError on
\* the int 0
NGet(x, keys, i) ==
  IF x.zero \/ ~(keys \subseteq DOMAIN x.m)
  THEN [ok |-> FALSE, v |-> NutZero, n |-> i]
  ELSE [ok |-> TRUE, v |-> Nut(Fresh(i), [a \in keys |-> x.m[a]]),
        n |-> Fresh(i) + 1]

(***************************************************************************)
(* Components (core/composite.py).  A component is a record                *)
(*   kind  : "I" IngredientComponent, "B" BasketComponent, "M" Meal        *)
(*   name, value, unit, meta, nut (NutZero or Nut(id, m))                  *)
(*   kids  : the children OrderedDict, a sequence of [key, c]              *)
(* meta is the content of the meta dict; 0 stands for the empty dict.      *)
(***************************************************************************)
NoComp == [kind |-> "none"]

\* a failed call: the exception propagates, nothing is returned
Err(i) == [ok |-> FALSE, c |-> NoComp, n |-> i]

Ok(c, i) == [ok |-> TRUE, c |-> c, n |-> i]

\* IngredientComponent.__init__
Ingr(name, value, unit, meta, nut) ==
  [kind |-> "I", name |-> name, value |-> value, unit |-> unit,
   meta |-> meta, nut |-> nut, kids |-> <<>>]

\* position of key in the children OrderedDict, 0 when absent
KeyIdx(kids, key) ==
  IF \E j \in 1..Len(kids) : kids[j].key = key
  THEN CHOOSE j \in 1..Len(kids) : kids[j].key = key
  ELSE 0

\* list(children.values())
KidList(c) == [j \in 1..Len(c.kids) |-> c.kids[j].c]

RECURSIVE SumValues(_, _)
\* compute_value: sum([child.value for child in children.values()])
SumValues(kids, j) ==
  IF j > Len(kids) THEN 0 ELSE kids[j].c.value + SumValues(kids, j + 1)

RECURSIVE SumNuts(_, _, _, _)
\* compute_nutrition: sum([child.nutrients ...]), Python's left fold from 0
SumNuts(kids, j, acc, i) ==
  IF j > Len(kids) THEN [v |-> acc, n |-> i]
  ELSE LET r == NAdd(acc, kids[j].c.nut, i)
       IN  SumNuts(kids, j + 1, r.v, r.n)

\* update_attr: compute_nutrition, then compute_value
UpdateAttr(b, i) ==
  LET r == SumNuts(b.kids, 1, NutZero, i)
  IN  Ok([b EXCEPT !.nut = r.v, !.value = SumValues(b.kids, 1)], r.n)

\* the test of IngredientComponent.add: meta, name and unit all equal
SameIdentity(x, y) ==
  x.meta = y.meta /\ x.name = y.name /\ x.unit = y.unit

\* add(x, y) builds BasketComponent(children=[x, y]) and the second child
\* collides with the first by name: add_children evaluates
\* children[name] + child, which is add(x, y) again, without end (Python
\* raises RecursionError).
Diverges(x, y) ==
  /\ x.kind # "B" /\ y.kind # "B"
  /\ x.name = y.name
  /\ ~(x.kind = "I" /\ y.kind = "I" /\ SameIdentity(x, y))

RECURSIVE Add(_, _, _), AddKids(_, _, _, _), MkBasket(_, _, _, _, _, _)

\* the loop of BasketComponent.add_children over the list L from position
\* j; on an exception `kids` is what the loop has stored so far
AddKids(kids, L, j, i) ==
  IF j > Len(L) THEN [ok |-> TRUE, kids |-> kids, n |-> i]
  ELSE LET c == L[j]
           at == KeyIdx(kids, c.name)
       IN  IF at = 0
           THEN AddKids(Append(kids, [key |-> c.name, c |-> c]), L, j + 1, i)
           ELSE LET r == Add(kids[at].c, c, i)
                IN  IF ~r.ok
                    THEN [ok |-> FALSE, kids |-> kids, n |-> i]
                    ELSE AddKids([kids EXCEPT ![at].c = r.c], L, j + 1, r.n)

\* BasketComponent.__init__ / MealComponent.__init__: Component.__init__,
\* add_children(children), then (Meal) self.meta = meta
MkBasket(kind, name, unit, meta, L, i) ==
  LET r == AddKids(<<>>, L, 1, i)
  IN  IF ~r.ok THEN Err(i)
      ELSE UpdateAttr([kind |-> kind, name |-> name, value |-> 0,
                       unit |-> unit, meta |-> meta, nut |-> NutZero,
                       kids |-> r.kids], r.n)

\* add with a merge that keeps the first operand's quantity instead of the
\* sum of both
AddDropsValue(x, y, i) ==
  IF Diverges(x, y) THEN Err(i)
  ELSE IF x.kind = "I" /\ y.kind = "I" /\ SameIdentity(x, y)
  THEN LET r == NAdd(x.nut, y.nut, i)
       IN  Ok(Ingr(x.name, x.value, x.unit, x.meta, r.v), r.n)
  ELSE LET xs == IF x.kind = "B" THEN KidList(x) ELSE <<x>>
           ys == IF y.kind = "B" THEN KidList(y) ELSE <<y>>
       IN  MkBasket("B", "MyBasket", "g", 0, xs \o ys, i)

\* IngredientComponent.add, BasketComponent.add, MealComponent.add
Add(x, y, i) ==
  IF Diverges(x, y) THEN Err(i)
  ELSE IF x.kind = "I" /\ y.kind = "I" /\ SameIdentity(x, y)
  THEN LET r == NAdd(x.nut, y.nut, i)
       IN  Ok(Ingr(x.name, x.value + y.value, x.unit, x.meta, r.v), r.n)
  ELSE LET xs == IF x.kind = "B" THEN KidList(x) ELSE <<x>>
           ys == IF y.kind = "B" THEN KidList(y) ELSE <<y>>
       IN  MkBasket("B", "MyBasket", "g", 0, xs \o ys, i)

\* IngredientComponent.sub: TypeError unless other is an Ingredient,
\* ValueError for another meta or a larger other.value; the new
\* Ingredient has value self.value - other.value and
\* nutrients self.nutrients + other.nutrients
Sub(x, y, i) ==
  IF x.kind # "I" \/ y.kind # "I" THEN Err(i)
  ELSE IF x.meta # y.meta THEN Err(i)
  ELSE IF x.value < y.value THEN Err(i)
  ELSE LET r == NAdd(x.nut, y.nut, i)
       IN  Ok(Ingr(x.name, x.value - y.value, x.unit, x.meta, r.v), r.n)

RECURSIVE Mul(_, _, _), MulList(_, _, _, _)

\* [child * scalar for child in self.children.values()]
MulList(L, j, k, i) ==
  IF j > Len(L) THEN [ok |-> TRUE, L |-> <<>>, n |-> i]
  ELSE LET r == Mul(L[j], k, i)
       IN  IF ~r.ok THEN [ok |-> FALSE, L |-> <<>>, n |-> i]
           ELSE LET rest == MulList(L, j + 1, k, r.n)
                IN  [ok |-> rest.ok, L |-> <<r.c>> \o rest.L, n |-> rest.n]

\* multiply that scales an ingredient's nutrients and leaves its quantity
MulKeepsValue(x, k, i) ==
  IF k < 0 THEN Err(i)
  ELSE IF x.kind = "I"
  THEN LET r == NMul(x.nut, k, i)
       IN  Ok(Ingr(x.name, x.value, x.unit, x.meta, r.v), r.n)
  ELSE LET r == MulList(KidList(x), 1, k, i)
       IN  IF ~r.ok THEN Err(i)
           ELSE MkBasket(x.kind, x.name, "g", 0, r.L, r.n)

\* IngredientComponent.multiply, BasketComponent.__mul__,
\* MealComponent.__mul__ (assert scalar >= 0)
Mul(x, k, i) ==
  IF k < 0 THEN Err(i)
  ELSE IF x.kind = "I"
  THEN LET r == NMul(x.nut, k, i)
       IN  Ok(Ingr(x.name, x.value * k, x.unit, x.meta, r.v), r.n)
  ELSE LET r == MulList(KidList(x), 1, k, i)
       IN  IF ~r.ok THEN Err(i)
           ELSE MkBasket(x.kind, x.name, "g", 0, r.L, r.n)

RECURSIVE Div(_, _, _), DivList(_, _, _, _)

\* [child / scalar for child in self.children.values()]
DivList(L, j, k, i) ==
  IF j > Len(L) THEN [ok |-> TRUE, L |-> <<>>, n |-> i]
  ELSE LET r == Div(L[j], k, i)
       IN  IF ~r.ok THEN [ok |-> FALSE, L |-> <<>>, n |-> i]
           ELSE LET rest == DivList(L, j + 1, k, r.n)
                IN  [ok |-> rest.ok, L |-> <<r.c>> \o rest.L, n |-> rest.n]

\* IngredientComponent.divide by a scalar, BasketComponent.__truediv__,
\* MealComponent.__truediv__ (assert scalar > 0)
Div(x, k, i) ==
  IF k <= 0 THEN Err(i)
  ELSE IF x.kind = "I"
  THEN LET r == NDiv(x.nut, k, i)
       IN  Ok(Ingr(x.name, x.value \div k, x.unit, x.meta, r.v), r.n)
  ELSE LET r == DivList(KidList(x), 1, k, i)
       IN  IF ~r.ok THEN Err(i)
           ELSE MkBasket(x.kind, x.name, "g", 0, r.L, r.n)

RECURSIVE GetItem(_, _, _), GetItemList(_, _, _, _)

\* [child[key] for child in self.children.values()]
GetItemList(L, j, keys, i) ==
  IF j > Len(L) THEN [ok |-> TRUE, L |-> <<>>, n |-> i]
  ELSE LET r == GetItem(L[j], keys, i)
       IN  IF ~r.ok THEN [ok |-> FALSE, L |-> <<>>, n |-> i]
           ELSE LET rest == GetItemList(L, j + 1, keys, r.n)
                IN  [ok |-> rest.ok, L |-> <<r.c>> \o rest.L, n |-> rest.n]

\* component[list of abbreviations]: IngredientComponent.__getitem__ and
\* BasketComponent.__getitem__, which MealComponent inherits
GetItem(x, keys, i) ==
  IF x.kind = "I"
  THEN LET r == NGet(x.nut, keys, i)
       IN  IF ~r.ok THEN Err(i)
           ELSE Ok(Ingr(x.name, x.value, x.unit, x.meta, r.v), r.n)
  ELSE LET r == GetItemList(KidList(x), 1, keys, i)
       IN  IF ~r.ok THEN Err(i)
           ELSE MkBasket("B", x.name, x.unit, 0, r.L, r.n)

\* BasketComponent.loc(list of child names), which MealComponent inherits
Loc(x, names, i) ==
  IF \E j \in 1..Len(names) : KeyIdx(x.kids, names[j]) = 0 THEN Err(i)
  ELSE MkBasket("B", x.name, x.unit, 0,
                [j \in 1..Len(names) |-> x.kids[KeyIdx(x.kids, names[j])].c],
                i)

\* BasketComponent.convert2ingre: the basket's own Nutrients object is
\* handed to the new ingredient
Convert2Ingre(x, name, i) == Ok(Ingr(name, x.value, x.unit, 0, x.nut), i)

\* BasketComponent.convert2meal
Convert2Meal(x, name, i) == MkBasket("M", name, x.unit, 0, KidList(x), i)

RECURSIVE FlattenList(_)
\* flatten(AggComponent): the component itself when it has no children,
\* else the flattened children in order
FlattenList(c) ==
  LET RECURSIVE From(_)
      From(j) == IF j > Len(c.kids) THEN <<>>
                 ELSE FlattenList(c.kids[j].c) \o From(j + 1)
  IN  IF c.kids = <<>> THEN <<c>> ELSE From(1)

\* MealComponent.flatten
Flatten(x, i) == MkBasket("M", x.name, x.unit, x.meta, FlattenList(x), i)

\* BasketComponent.add_children on an existing basket: on an exception the
\* children stored so far stay and update_attr is not reached
AddChildren(b, L, i) ==
  LET r == AddKids(b.kids, L, 1, i)
  IN  IF r.ok THEN UpdateAttr([b EXCEPT !.kids = r.kids], r.n)
      ELSE [ok |-> FALSE, c |-> [b EXCEPT !.kids = r.kids], n |-> r.n]

\* kids without position at
DropAt(kids, at) ==
  [j \in 1..(Len(kids) - 1) |-> IF j < at THEN kids[j] ELSE kids[j + 1]]

\* BasketComponent.__delitem__: del self.children[key]; update_attr()
DelChild(b, key, i) ==
  LET at == KeyIdx(b.kids, key)
  IN  IF at = 0 THEN [ok |-> FALSE, c |-> b, n |-> i]
      ELSE UpdateAttr([b EXCEPT !.kids = DropAt(b.kids, at)], i)

RECURSIVE DelNutIn(_, _, _)
\* the effect of Nutrients.__delitem__(a) on container id, seen from
\* component c: every holder of that container sees the entry gone
DelNutIn(c, id, a) ==
  LET own == IF ~c.nut.zero /\ c.nut.id = id
             THEN [c.nut EXCEPT
                     !.m = [b \in (DOMAIN c.nut.m) \ {a} |-> c.nut.m[b]]]
             ELSE c.nut
  IN  [c EXCEPT !.nut = own,
                !.kids = [j \in 1..Len(c.kids) |->
                            [key |-> c.kids[j].key,
                             c |-> DelNutIn(c.kids[j].c, id, a)]]]

(***************************************************************************)
(* amount.py, and Nutrient and Nutrients of core/composite.py and of       *)
(* nutrient.py, entry by entry.  A Nutrient is a record of abbr, value and *)
(* unit (core keeps value and unit in an Amount).  Values are held in      *)
(* thousandths of the unit, which makes the conversions between g and mg   *)
(* exact.  A container is the sequence of its entries in the order of the  *)
(* OrderedDict.                                                            *)
(***************************************************************************)
\* largest number of calls that change the container
MaxNutCalls == 3

\* conversion_dict, the factors in thousandths (1e-3 is 1)
Factor(unit) ==
  CASE unit = "kg" -> 1000000
    [] unit = "g" -> 1000
    [] unit = "mg" -> 1
    [] unit = "m" -> 1000
    [] unit = "cm" -> 10
    [] unit = "mm" -> 1

\* find_type
find_type(unit) == IF unit \in {"kg", "g", "mg"} THEN "mass" ELSE "length"

\* the smaller of the two units
find_smaller_unit(amtA, amtB) ==
  IF Factor(amtA.unit) <= Factor(amtB.unit) THEN amtA.unit ELSE amtB.unit

\* find_target_unit: the larger of the two units
find_target_unit(amtA, amtB) ==
  IF Factor(amtA.unit) >= Factor(amtB.unit) THEN amtA.unit ELSE amtB.unit

\* Amount.convert: TypeError for a unit of another type
convert(amt, target_unit) ==
  IF find_type(amt.unit) # find_type(target_unit)
  THEN [ok |-> FALSE, value |-> 0, unit |-> target_unit]
  ELSE [ok |-> TRUE,
        value |-> (amt.value * Factor(amt.unit)) \div Factor(target_unit),
        unit |-> target_unit]

\* Amount.__add__ (sign = 1) and Amount.__sub__ (sign = -1): type check,
\* both operands converted to the target unit
AmountAdd(a, b, sign) ==
  IF find_type(a.unit) # find_type(b.unit)
  THEN [ok |-> FALSE, value |-> 0, unit |-> a.unit]
  ELSE LET t == find_target_unit(a, b)
       IN  [ok |-> TRUE,
            value |-> convert(a, t).value + sign * convert(b, t).value,
            unit |-> t]

\* division of the values as they are, without the conversion to the
\* target unit
AmountDivUnconverted(a, b) ==
  IF find_type(a.unit) # find_type(b.unit)
  THEN [ok |-> FALSE, err |-> "TypeError", ratio |-> 0]
  ELSE IF b.value = 0 THEN [ok |-> FALSE, err |-> "ZeroDivisionError", ratio |-> 0]
  ELSE [ok |-> TRUE, err |-> "none", ratio |-> (1000 * a.value) \div b.value]

\* Amount.__truediv__ by an Amount: type check, both operands converted to
\* the target unit, new_self.value / new_other.value; the ratio, a number,
\* is held in thousandths
AmountDiv(a, b) ==
  LET t == find_target_unit(a, b)
  IN  IF find_type(a.unit) # find_type(b.unit)
      THEN [ok |-> FALSE, err |-> "TypeError", ratio |-> 0]
      ELSE IF convert(b, t).value = 0
      THEN [ok |-> FALSE, err |-> "ZeroDivisionError", ratio |-> 0]
      ELSE [ok |-> TRUE, err |-> "none",
            ratio |-> (1000 * convert(a, t).value) \div convert(b, t).value]

\* a scalar argument: a number (int, float) or something else
Num(v) == [num |-> TRUE, v |-> v]

NotNum == [num |-> FALSE, v |-> 0]

\* Amount.__mul__ / __rmul__: TypeError unless the scalar is a number
AmountMul(a, scalar) ==
  IF ~scalar.num THEN [ok |-> FALSE, err |-> "TypeError", value |-> 0, unit |-> a.unit]
  ELSE [ok |-> TRUE, err |-> "none", value |-> a.value * scalar.v, unit |-> a.unit]

\* Amount.__truediv__ by a scalar: self.value / other, ZeroDivisionError
\* for 0; TypeError for what is neither a number nor an Amount
AmountDivScalar(a, other) ==
  IF ~other.num THEN [ok |-> FALSE, err |-> "TypeError", value |-> 0, unit |-> a.unit]
  ELSE IF other.v = 0
  THEN [ok |-> FALSE, err |-> "ZeroDivisionError", value |-> 0, unit |-> a.unit]
  ELSE [ok |-> TRUE, err |-> "none", value |-> a.value \div other.v, unit |-> a.unit]

Nutrient(abbr, value, unit) == [abbr |-> abbr, value |-> value, unit |-> unit]

\* Nutrient.__add__ and Nutrient.__sub__ of core: the type test compares
\* the abbreviations, the amounts are combined
NutrientAdd(x, y, sign) ==
  LET s == AmountAdd(x, y, sign)
  IN  IF x.abbr # y.abbr \/ ~s.ok THEN [ok |-> FALSE, nut |-> x]
      ELSE [ok |-> TRUE, nut |-> Nutrient(x.abbr, s.value, s.unit)]

\* Nutrient.__add__ of nutrient.py: the type test wants the same
\* abbreviation and the same unit (a Nutrient's name is its abbreviation
\* here), the values are added
PNutrientAdd(x, y) ==
  IF x.abbr # y.abbr \/ x.unit # y.unit THEN [ok |-> FALSE, nut |-> x]
  ELSE [ok |-> TRUE, nut |-> Nutrient(x.abbr, x.value + y.value, x.unit)]

\* Nutrient.__mul__ / __rmul__ of core
NutrientMul(x, scalar) == Nutrient(x.abbr, x.value * scalar, x.unit)

\* Nutrient.__truediv__ of core by a Nutrient: Amount / Amount is a number
\* (TypeError for another type of unit, ZeroDivisionError for a zero
\* amount), and reading .value of that number raises AttributeError
NutrientDiv(x, y) ==
  IF x.abbr # y.abbr THEN [ok |-> FALSE, err |-> "ValueError"]
  ELSE IF find_type(x.unit) # find_type(y.unit)
  THEN [ok |-> FALSE, err |-> "TypeError"]
  ELSE IF y.value = 0 THEN [ok |-> FALSE, err |-> "ZeroDivisionError"]
  ELSE [ok |-> FALSE, err |-> "AttributeError"]

\* position of abbr in the entries, 0 when absent
AbbrIdx(nutrients, abbr) ==
  IF \E j \in 1..Len(nutrients) : nutrients[j].abbr = abbr
  THEN CHOOSE j \in 1..Len(nutrients) : nutrients[j].abbr = abbr
  ELSE 0

\* the keys of the container
Keys(nutrients) == {nutrients[j].abbr : j \in 1..Len(nutrients)}

\* self.nutrients[abbr]
At(nutrients, abbr) == nutrients[AbbrIdx(nutrients, abbr)]

RECURSIVE add_nutrients_overwrite(_, _, _, _)
\* add_nutrients that stores the new Nutrient over an existing entry
add_nutrients_overwrite(impl, nutrients, list, j) ==
  IF j > Len(list) THEN [ok |-> TRUE, nutrients |-> nutrients, done |-> Len(list)]
  ELSE LET at == AbbrIdx(nutrients, list[j].abbr)
       IN  add_nutrients_overwrite(
             impl,
             IF at = 0 THEN Append(nutrients, list[j])
             ELSE [nutrients EXCEPT ![at] = list[j]],
             list, j + 1)

RECURSIVE add_nutrients(_, _, _, _)
\* Nutrients.add_nutrients from list[j] on, impl "core" for
\* core/composite.py and "np" for nutrient.py: an entry of the same
\* abbreviation becomes the sum of itself and the new Nutrient, at its
\* place; a new abbreviation goes to the end.  An exception of the sum
\* leaves the Nutrients stored so far stored (done counts them).
add_nutrients(impl, nutrients, list, j) ==
  IF j > Len(list) THEN [ok |-> TRUE, nutrients |-> nutrients, done |-> Len(list)]
  ELSE LET at == AbbrIdx(nutrients, list[j].abbr)
           s == IF impl = "core" THEN NutrientAdd(nutrients[at], list[j], 1)
                ELSE PNutrientAdd(nutrients[at], list[j])
       IN  IF at = 0
           THEN add_nutrients(impl, Append(nutrients, list[j]), list, j + 1)
           ELSE IF ~s.ok
           THEN [ok |-> FALSE, nutrients |-> nutrients, done |-> j - 1]
           ELSE add_nutrients(impl, [nutrients EXCEPT ![at] = s.nut],
                              list, j + 1)

RECURSIVE delitem(_, _, _)
\* Nutrients.__delitem__ with a list of keys, both modules:
\* del self.nutrients[k] key by key; a KeyError leaves the keys deleted so
\* far deleted
delitem(nutrients, key, j) ==
  IF j > Len(key) THEN [ok |-> TRUE, nutrients |-> nutrients]
  ELSE LET at == AbbrIdx(nutrients, key[j])
       IN  IF at = 0 THEN [ok |-> FALSE, nutrients |-> nutrients]
           ELSE delitem([i \in 1..(Len(nutrients) - 1) |->
                           IF i < at THEN nutrients[i] ELSE nutrients[i + 1]],
                        key, j + 1)

\* the union branch of sub with the entries of the second operand alone
\* stored as they are
MergeKeepsOther(x, y, sign, method) ==
  LET both == Keys(x) \cap Keys(y)
      keys == IF method = "union" THEN Keys(x) \cup Keys(y) ELSE both
  IN  [ok |-> \A abbr \in both : NutrientAdd(At(x, abbr), At(y, abbr), sign).ok,
       m |-> [abbr \in keys |->
                IF abbr \in both
                THEN NutrientAdd(At(x, abbr), At(y, abbr), sign).nut
                ELSE IF abbr \in Keys(x) THEN At(x, abbr)
                ELSE At(y, abbr)]]

\* Nutrients.add (sign = 1) and Nutrients.sub (sign = -1) of core for two
\* containers, method "intersect" or "union".  The loops run over a set of
\* keys, so the order of the result is not determined by the code: the
\* result is held as the mapping from abbreviation to Nutrient.
Merge(x, y, sign, method) ==
  LET both == Keys(x) \cap Keys(y)
      keys == IF method = "union" THEN Keys(x) \cup Keys(y) ELSE both
  IN  [ok |-> \A abbr \in both : NutrientAdd(At(x, abbr), At(y, abbr), sign).ok,
       m |-> [abbr \in keys |->
                IF abbr \in both
                THEN NutrientAdd(At(x, abbr), At(y, abbr), sign).nut
                ELSE IF abbr \in Keys(x) THEN At(x, abbr)
                ELSE IF sign = 1 THEN At(y, abbr)
                ELSE NutrientMul(At(y, abbr), -1)]]

\* Nutrients.divide of core by a container: ValueError for "union"; for
\* "intersect" Nutrient / Nutrient for every shared key, which raises
Divide(x, y, method) ==
  LET both == Keys(x) \cap Keys(y)
  IN  IF method = "union" THEN [ok |-> FALSE, err |-> "ValueError", m |-> <<>>]
      ELSE IF both = {} THEN [ok |-> TRUE, err |-> "none", m |-> <<>>]
      ELSE [ok |-> FALSE,
            err |-> NutrientDiv(At(x, CHOOSE abbr \in both : TRUE),
                                At(y, CHOOSE abbr \in both : TRUE)).err,
            m |-> <<>>]

\* the order of Python on the abbreviations
AbbrRank(abbr) ==
  CASE abbr = "CBH" -> 1 [] abbr = "ENERC" -> 2 [] abbr = "PROCNT" -> 3

\* sorted(values, key = abbr, reverse): the abbreviations are distinct
SortedByAbbr(nutrients, reverse) ==
  [i \in 1..Len(nutrients) |->
     CHOOSE e \in {nutrients[j] : j \in 1..Len(nutrients)} :
       Cardinality({f \in {nutrients[j] : j \in 1..Len(nutrients)} :
                      IF reverse THEN AbbrRank(f.abbr) > AbbrRank(e.abbr)
                      ELSE AbbrRank(f.abbr) < AbbrRank(e.abbr)}) = i - 1]

\* Nutrients.sort of core: sorted() compares getattr(nut, key).  With
\* key "amt" (the default) the keys are Amount objects, which have no
\* order: TypeError as soon as two entries are compared.  The name of a
\* Nutrient is its abbreviation here, so that key "name" orders as "abbr".
sort(nutrients, key, reverse) ==
  IF key \in {"abbr", "name"}
  THEN [ok |-> TRUE, nutrients |-> SortedByAbbr(nutrients, reverse)]
  ELSE IF Len(nutrients) <= 1 THEN [ok |-> TRUE, nutrients |-> nutrients]
  ELSE [ok |-> FALSE, nutrients |-> <<>>]

\* Nutrients.unify_units of core: every Nutrient of self.nutrs, the list
\* update_attrs made, is converted; TypeError for a unit of another type
unify_units(nutrs, target_unit) ==
  [ok |-> \A j \in 1..Len(nutrs) : convert(nutrs[j], target_unit).ok,
   nutrients |-> [j \in 1..Len(nutrs) |->
                    Nutrient(nutrs[j].abbr,
                             convert(nutrs[j], target_unit).value,
                             target_unit)]]

(***************************************************************************)
(* nutrient.py: merging Nutrients containers whose Nutrients have one      *)
(* unit (g).  Such a container is held as the mapping from abbreviation to *)
(* value (a function; the empty container is <<>>).                        *)
(***************************************************************************)
\* std_nut
StdNut ==
  {"PROCNT", "CBH", "LIP", "FIBTG", "CHOLE", "VITA", "VITC", "VITE", "RIBF",
   "NIA", "THIA", "SE", "MG", "K", "ZN", "MN", "NA", "CA", "FE", "CU"}

\* key_matching: the abbreviations of std_nut that are in both key sets
key_matching(key_set1, key_set2) ==
  {key \in StdNut : key \in key_set1 /\ key \in key_set2}

\* Nutrients.add of nutrient.py for two containers
PAdd(x, y) ==
  [abbr \in key_matching(DOMAIN x, DOMAIN y) |-> x[abbr] + y[abbr]]

RECURSIVE PFoldSkips(_, _, _)
\* a loop that leaves out every second container of the list
PFoldSkips(out, list, j) ==
  IF j > Len(list) THEN out
  ELSE PFoldSkips(IF j % 2 = 0 THEN out ELSE PAdd(out, list[j]), list, j + 1)

RECURSIVE PFold(_, _, _)
\* the loop of Nutrients.sum: out_nuts = out_nuts + nuts for list[j..]
PFold(out, list, j) ==
  IF j > Len(list) THEN out ELSE PFold(PAdd(out, list[j]), list, j + 1)

\* Nutrients.sum of a list that is not empty
PSum(list) == PFold(list[1], list, 2)

\* Nutrients.__getitem__ with a tuple of keys: KeyError for an absent key
PGetItem(x, keys) ==
  IF \A j \in 1..Len(keys) : keys[j] \in DOMAIN x
  THEN [ok |-> TRUE,
        m |-> [abbr \in {keys[j] : j \in 1..Len(keys)} |-> x[abbr]]]
  ELSE [ok |-> FALSE, m |-> <<>>]

\* Nutrient.__truediv__ of nutrient.py by a Nutrient: the type test raises
\* ValueError for another abbreviation or unit; the ZeroDivisionError of
\* self.value / other.value is caught and the value is float('nan'); the
\* result has the unit "".  The quotient is held in thousandths.
PNutrientDiv(x, y) ==
  IF x.abbr # y.abbr \/ x.unit # y.unit
  THEN [ok |-> FALSE, err |-> "ValueError", nan |-> FALSE, nut |-> x]
  ELSE IF y.value = 0
  THEN [ok |-> TRUE, err |-> "none", nan |-> TRUE,
        nut |-> [abbr |-> x.abbr, value |-> 0, unit |-> ""]]
  ELSE [ok |-> TRUE, err |-> "none", nan |-> FALSE,
        nut |-> [abbr |-> x.abbr, value |-> (1000 * x.value) \div y.value,
                 unit |-> ""]]

\* Nutrients.__truediv__ of nutrient.py by a Nutrients: the Nutrient
\* division for every key of key_matching; X and Y map an abbreviation to
\* its Nutrient
PDivide(X, Y) ==
  LET ordered_keys == key_matching(DOMAIN X, DOMAIN Y)
      q == [abbr \in ordered_keys |-> PNutrientDiv(X[abbr], Y[abbr])]
  IN  IF \A abbr \in ordered_keys : q[abbr].ok
      THEN [ok |-> TRUE, err |-> "none", m |-> q]
      ELSE [ok |-> FALSE, err |-> "ValueError", m |-> <<>>]

(***************************************************************************)
(* The client of a Nutrients container.  box is the container: impl, the   *)
(* entries (nutrients), the list update_attrs made last (nutrs; core only) *)
(* and, for the properties, ins: for every abbreviation held the sum of    *)
(* the amounts inserted under it, in thousandths of the smallest unit.     *)
(* nlast records the latest call.                                          *)
(***************************************************************************)
\* Nutrients(): __init__ with no Nutrient
NewBox(impl) ==
  [impl |-> impl, nutrients |-> <<>>, nutrs |-> <<>>, ins |-> <<>>]

\* the Nutrient objects the client inserts
NutInputs ==
  {Nutrient("PROCNT", 3000, "g"), Nutrient("PROCNT", 2000, "mg"),
   Nutrient("CBH", 5000, "g"), Nutrient("ENERC", 4000, "g"),
   Nutrient("CBH", 1000, "cm")}

\* the lists handed to add_nutrients and to Nutrients(...)
InputLists ==
  {<<a>> : a \in NutInputs} \cup {<<a, b>> : <<a, b>> \in NutInputs \X NutInputs}

NutAbbrs == {"PROCNT", "CBH", "ENERC"}

\* the key lists handed to del
DelLists ==
  {<<a>> : a \in NutAbbrs} \cup
  {<<a, b>> : <<a, b>> \in {q \in NutAbbrs \X NutAbbrs : q[1] # q[2]}}

\* the other operand of a merge or a division: Nutrients(list), whose
\* __init__ is add_nutrients, for a list of one Nutrient or of two of
\* different abbreviations
Others ==
  {add_nutrients("core", <<>>, L, 1).nutrients :
     L \in {M \in InputLists :
              Len(M) = 2 => AbbrRank(M[1].abbr) < AbbrRank(M[2].abbr)}}

RECURSIVE Inserted(_, _, _)
\* ins after the first done Nutrients of list were inserted
Inserted(ins, list, done) ==
  IF done = 0 THEN ins
  ELSE LET i == Inserted(ins, list, done - 1)
           n == list[done]
           amount == n.value * Factor(n.unit)
       IN  [abbr \in DOMAIN i \cup {n.abbr} |->
              IF abbr # n.abbr THEN i[abbr]
              ELSE IF abbr \in DOMAIN i THEN i[abbr] + amount
              ELSE amount]

\* the record of a call: opt is the method of a merge or a division and
\* the reverse flag of sort, err the exception of a failed division
NCall(op, arg, opt, ok, err, res, before, kept) ==
  [op |-> op, arg |-> arg, opt |-> opt, ok |-> ok, err |-> err, res |-> res,
   before |-> before, kept |-> kept]

NNoCall == NCall("none", 0, 0, TRUE, "none", <<>>, NewBox("core"), TRUE)

\* a call that leaves the container as it is is only looked at: what goes
\* on after it goes on from the state before it as well
NReady == nlast.kept

\* the container is changed by a call
NStep ==
  /\ NReady
  /\ calls < MaxNutCalls
  /\ calls' = calls + 1
  /\ UNCHANGED <<pool, last, heap, tlast>>

\* the container is only read
NRead ==
  /\ NReady
  /\ UNCHANGED <<pool, calls, last, heap, tlast, box>>

\* box.add_nutrients(list); update_attrs is not called
AddNutrients(list) ==
  LET r == add_nutrients(box.impl, box.nutrients, list, 1)
  IN  /\ NStep
      /\ box' = [box EXCEPT !.nutrients = r.nutrients,
                            !.ins = Inserted(box.ins, list, r.done)]
      /\ nlast' = NCall("add_nutrients", list, 0, r.ok, "none", <<>>, box,
                        TRUE)

\* del box[key]; core calls update_attrs after the loop
DelItem(key) ==
  LET r == delitem(box.nutrients, key, 1)
  IN  /\ NStep
      /\ box' = [box EXCEPT
                   !.nutrients = r.nutrients,
                   !.nutrs = IF r.ok /\ box.impl = "core" THEN r.nutrients
                             ELSE @,
                   !.ins = [abbr \in Keys(r.nutrients) |-> @[abbr]]]
      /\ nlast' = NCall("delete", key, 0, r.ok, "none", <<>>, box, TRUE)

\* box.add(other, method) and box.sub(other, method) of core
DoMerge(other, sign, method) ==
  LET r == Merge(box.nutrients, other, sign, method)
  IN  /\ box.impl = "core"
      /\ NRead
      /\ nlast' = NCall(IF sign = 1 THEN "add" ELSE "sub", other, method,
                        r.ok, "none", r.m, box, FALSE)

\* box.divide(other, method) of core
DoDivide(other, method) ==
  LET r == Divide(box.nutrients, other, method)
  IN  /\ box.impl = "core"
      /\ NRead
      /\ nlast' = NCall("divide", other, method, r.ok, r.err, r.m, box, FALSE)

\* box.sort(key, reverse) of core
DoSort(key, reverse) ==
  LET r == sort(box.nutrients, key, reverse)
  IN  /\ box.impl = "core"
      /\ NRead
      /\ nlast' = NCall("sort", key, reverse, r.ok, "none", r.nutrients, box,
                        FALSE)

\* box.unify_units(target_unit) of core
DoUnifyUnits(target_unit) ==
  LET r == unify_units(box.nutrs, target_unit)
  IN  /\ box.impl = "core"
      /\ NRead
      /\ nlast' = NCall("unify_units", target_unit, 0, r.ok, "none",
                        r.nutrients, box, FALSE)

\* the containers of nutrient.py the client merges, all in g
PConts ==
  UNION {[S -> {1000, 2000}] : S \in SUBSET NutAbbrs}

\* a container of nutrient.py as a mapping
PMap(nutrients) ==
  [abbr \in Keys(nutrients) |-> At(nutrients, abbr).value]

\* box + other of nutrient.py, the Nutrients of box in g
DoPAdd(other) ==
  /\ box.impl = "np"
  /\ \A j \in 1..Len(box.nutrients) : box.nutrients[j].unit = "g"
  /\ NRead
  /\ nlast' = NCall("padd", other, "intersect", TRUE, "none",
                    PAdd(PMap(box.nutrients), other), box, FALSE)

NInit ==
  /\ box \in {NewBox("core"), NewBox("np")}
  /\ nlast = NNoCall
  /\ calls = 0
  /\ pool = {}
  /\ last = [op |-> "none"]
  /\ heap = <<>>
  /\ tlast = [op |-> "none"]

NNext ==
  \/ \E list \in InputLists : AddNutrients(list)
  \/ \E key \in DelLists : DelItem(key)
  \/ \E other \in Others, sign \in {1, -1}, method \in {"intersect", "union"} :
       DoMerge(other, sign, method)
  \/ \E other \in Others, method \in {"intersect", "union"} :
       DoDivide(other, method)
  \/ \E key \in {"amt", "abbr", "name"}, reverse \in BOOLEAN :
       DoSort(key, reverse)
  \/ \E target_unit \in {"g", "mg", "cm"} : DoUnifyUnits(target_unit)
  \/ \E other \in PConts : DoPAdd(other)

SpecNut == NInit /\ [][NNext]_vars

\* Nutrients.sum of nutrient.py for a list of three containers
DoSum ==
  /\ nlast.op = "list"
  /\ nlast' = NCall("sum", nlast.arg, 0, TRUE, "none", PSum(nlast.arg), box,
                    FALSE)
  /\ UNCHANGED <<pool, calls, last, heap, tlast, box>>

SumInit ==
  /\ box = NewBox("np")
  /\ \E A, B, C \in PConts :
       nlast = NCall("list", <<A, B, C>>, 0, TRUE, "none", <<>>, box, FALSE)
  /\ calls = 0
  /\ pool = {}
  /\ last = [op |-> "none"]
  /\ heap = <<>>
  /\ tlast = [op |-> "none"]

SumNext == DoSum

SpecSum == SumInit /\ [][SumNext]_vars

\* the Nutrient objects of nutrient.py the client divides, the values in
\* thousandths
PNutrients ==
  {[abbr |-> a, value |-> v, unit |-> u] :
     a \in {"PROCNT", "CBH"}, v \in {0, 1000, 2000}, u \in {"g", "mg"}}

\* x / y for the two Nutrients drawn; the quotient is exact
DoPNutrientDiv ==
  LET r == PNutrientDiv(nlast.arg[1], nlast.arg[2])
  IN  /\ nlast.op = "nutrients"
      /\ nlast.arg[2].value # 0
         => (1000 * nlast.arg[1].value) % nlast.arg[2].value = 0
      /\ nlast' = NCall("pnutrient_div", nlast.arg, 0, r.ok, r.err,
                        [nan |-> r.nan, nut |-> r.nut], box, FALSE)
      /\ UNCHANGED <<pool, calls, last, heap, tlast, box>>

\* Nutrients([x]) / Nutrients([y]) for the two Nutrients drawn
DoPDivide ==
  LET X == [abbr \in {nlast.arg[1].abbr} |-> nlast.arg[1]]
      Y == [abbr \in {nlast.arg[2].abbr} |-> nlast.arg[2]]
      r == PDivide(X, Y)
  IN  /\ nlast.op = "nutrients"
      /\ nlast.arg[2].value # 0
         => (1000 * nlast.arg[1].value) % nlast.arg[2].value = 0
      /\ nlast' = NCall("pdivide", nlast.arg, 0, r.ok, r.err, r.m, box, FALSE)
      /\ UNCHANGED <<pool, calls, last, heap, tlast, box>>

PDivInit ==
  /\ box = NewBox("np")
  /\ \E x, y \in PNutrients :
       nlast = NCall("nutrients", <<x, y>>, 0, TRUE, "none", <<>>, box, FALSE)
  /\ calls = 0
  /\ pool = {}
  /\ last = [op |-> "none"]
  /\ heap = <<>>
  /\ tlast = [op |-> "none"]

PDivNext == DoPNutrientDiv \/ DoPDivide

SpecPDiv == PDivInit /\ [][PDivNext]_vars

\* the Amount objects and the scalars of the client of amount.py, the
\* values in thousandths
Amounts ==
  {[value |-> v, unit |-> u] : v \in {0, 5000, 10000}, u \in {"g", "mg", "cm"}}

AmountScalars == {Num(-1), Num(0), Num(2), NotNum}

\* a + b (sign = 1) and a - b (sign = -1) for the operands drawn
DoAmountAdd(sign) ==
  LET r == AmountAdd(nlast.arg[1], nlast.arg[2], sign)
  IN  /\ nlast.op = "amounts"
      /\ nlast' = NCall(IF sign = 1 THEN "amount_add" ELSE "amount_sub",
                        nlast.arg, 0, r.ok, IF r.ok THEN "none" ELSE "TypeError",
                        [value |-> r.value, unit |-> r.unit], box, FALSE)
      /\ UNCHANGED <<pool, calls, last, heap, tlast, box>>

\* a / b; the quotient is exact in thousandths
DoAmountDiv ==
  LET r == AmountDiv(nlast.arg[1], nlast.arg[2])
  IN  /\ nlast.op = "amounts"
      /\ (/\ find_type(nlast.arg[1].unit) = find_type(nlast.arg[2].unit)
          /\ nlast.arg[2].value # 0)
         => LET t == find_target_unit(nlast.arg[1], nlast.arg[2])
            IN  (1000 * convert(nlast.arg[1], t).value)
                  % convert(nlast.arg[2], t).value = 0
      /\ nlast' = NCall("amount_div", nlast.arg, 0, r.ok, r.err, r.ratio, box,
                        FALSE)
      /\ UNCHANGED <<pool, calls, last, heap, tlast, box>>

\* a * scalar
DoAmountMul ==
  LET r == AmountMul(nlast.arg[1], nlast.arg[3])
  IN  /\ nlast.op = "amounts"
      /\ nlast' = NCall("amount_mul", nlast.arg, 0, r.ok, r.err,
                        [value |-> r.value, unit |-> r.unit], box, FALSE)
      /\ UNCHANGED <<pool, calls, last, heap, tlast, box>>

\* a / scalar; the quotient is exact
DoAmountDivScalar ==
  LET r == AmountDivScalar(nlast.arg[1], nlast.arg[3])
  IN  /\ nlast.op = "amounts"
      /\ (nlast.arg[3].num /\ nlast.arg[3].v # 0)
         => nlast.arg[1].value
              % (IF nlast.arg[3].v < 0 THEN -nlast.arg[3].v ELSE nlast.arg[3].v)
              = 0
      /\ nlast' = NCall("amount_div_scalar", nlast.arg, 0, r.ok, r.err,
                        [value |-> r.value, unit |-> r.unit], box, FALSE)
      /\ UNCHANGED <<pool, calls, last, heap, tlast, box>>

AmountInit ==
  /\ box = NewBox("core")
  /\ \E a, b \in Amounts, scalar \in AmountScalars :
       nlast = NCall("amounts", <<a, b, scalar>>, 0, TRUE, "none", <<>>, box,
                     FALSE)
  /\ calls = 0
  /\ pool = {}
  /\ last = [op |-> "none"]
  /\ heap = <<>>
  /\ tlast = [op |-> "none"]

AmountNext ==
  \/ \E sign \in {1, -1} : DoAmountAdd(sign)
  \/ DoAmountDiv
  \/ DoAmountMul
  \/ DoAmountDivScalar

SpecAmount == AmountInit /\ [][AmountNext]_vars

\* std_nut as the list it is
std_nut ==
  <<"PROCNT", "CBH", "LIP", "FIBTG", "CHOLE", "VITA", "VITC", "VITE", "RIBF",
    "NIA", "THIA", "SE", "MG", "K", "ZN", "MN", "NA", "CA", "FE", "CU">>

\* key_matching(key_set1, key_set2, order): the list comprehension runs
\* over std_nut, the argument order is not read
key_matching_list(key_set1, key_set2, order) ==
  LET both(key) == key \in key_set1 /\ key \in key_set2
  IN  SelectSeq(std_nut, both)

\* the keys and the orders the client hands to key_matching
MatchKeys == {"PROCNT", "CBH", "LIP", "ENERC"}

MatchOrders ==
  {std_nut, <<"CBH", "PROCNT", "LIP">>, <<"ENERC", "LIP", "CBH", "PROCNT">>}

\* key_matching(key_set1, key_set2, order) for the arguments drawn
DoKeyMatching ==
  /\ nlast.op = "keys"
  /\ nlast' = NCall("key_matching", nlast.arg, 0, TRUE, "none",
                    key_matching_list(nlast.arg[1], nlast.arg[2],
                                      nlast.arg[3]),
                    box, FALSE)
  /\ UNCHANGED <<pool, calls, last, heap, tlast, box>>

KeysInit ==
  /\ box = NewBox("np")
  /\ \E key_set1, key_set2 \in SUBSET MatchKeys, order \in MatchOrders :
       nlast = NCall("keys", <<key_set1, key_set2, order>>, 0, TRUE, "none",
                     <<>>, box, FALSE)
  /\ calls = 0
  /\ pool = {}
  /\ last = [op |-> "none"]
  /\ heap = <<>>
  /\ tlast = [op |-> "none"]

KeysNext == DoKeyMatching

SpecKeys == KeysInit /\ [][KeysNext]_vars

(***************************************************************************)
(* The client of core/composite.py: it retrieves ingredients, combines     *)
(* the components it holds (pool) and keeps the results.  last records     *)
(* the latest call: its operands, its result and whether it returned.      *)
(***************************************************************************)
\* the ingredient records the client can retrieve:
\* name, value, unit, meta, nutrient mapping
Catalogue ==
  << [name |-> "A", value |-> 60, unit |-> "g", meta |-> 1,
      m |-> [a \in {"p", "c"} |-> IF a = "p" THEN 4 ELSE 10]],
     [name |-> "A", value |-> 50, unit |-> "g", meta |-> 2,
      m |-> [a \in {"p", "c"} |-> IF a = "p" THEN 6 ELSE 2]],
     [name |-> "B", value |-> 40, unit |-> "g", meta |-> 1,
      m |-> [a \in {"c"} |-> 8]] >>

Abbrs == {"p", "c"}

Names == {"A", "B", "M"}

MealNames == {"M", "A"}

\* scalars handed to multiply and divide
Scalars == (-1)..MaxK

\* lists of distinct child names handed to loc
NameLists ==
  {<<a>> : a \in Names} \cup
  {<<a, b>> : <<a, b>> \in {q \in Names \X Names : q[1] # q[2]}}

\* lists of components handed to add_children
CompLists(S) == {<<a>> : a \in S} \cup {<<a, b>> : <<a, b>> \in S \X S}

\* the record of a call: kept says that the call changed what the client
\* holds
Call(op, x, y, arg, r, kept) ==
  [op |-> op, x |-> x, y |-> y, arg |-> arg, ok |-> r.ok, res |-> r.c,
   kept |-> kept]

NoCall ==
  [op |-> "none", x |-> NoComp, y |-> NoComp, arg |-> 0, ok |-> TRUE,
   res |-> NoComp, kept |-> TRUE]

\* A call whose result is only looked at leaves the client's components as
\* they were: every behaviour that goes on after it goes on from the state
\* before it as well, and is explored from there.
Ready == last.kept

Discard == [kind |-> "discard"]

\* what the client does with the result of a call: d = Discard lets it go,
\* d = NoComp binds it to a new variable, d in pool rebinds the variable
\* that held d
Keep(r, d) ==
  /\ Ready
  /\ IF r.ok /\ d # Discard
     THEN /\ calls < MaxCalls
          /\ Cardinality((pool \ {d}) \cup {r.c}) <= MaxPool
          /\ pool' = (pool \ {d}) \cup {r.c}
          /\ calls' = calls + 1
     ELSE /\ d = Discard
          /\ UNCHANGED <<pool, calls>>
  /\ UNCHANGED <<heap, tlast, box, nlast>>

\* the client looks at the result of a call (a scaled or sliced copy) and
\* lets it go
Inspect(r) ==
  /\ Ready
  /\ UNCHANGED <<pool, calls, heap, tlast, box, nlast>>

\* an in-place call on basket b of the pool
Mutate(b, r) ==
  /\ Ready
  /\ calls < MaxCalls
  /\ pool' = (pool \ {b}) \cup {r.c}
  /\ calls' = calls + 1
  /\ UNCHANGED <<heap, tlast, box, nlast>>

Retrieve(s, d) ==
  LET c == Catalogue[s]
      r == Ok(Ingr(c.name, c.value, c.unit, c.meta, Nut(Fresh(1), c.m)),
              Fresh(1) + 1)
  IN  /\ Keep(r, d)
      /\ last' = Call("retrieve", NoComp, NoComp, s, r,
                   d # Discard)

NewBasket(L, d) ==
  LET r == MkBasket("B", "MyBasket", "g", 0, L, 1)
  IN  /\ Keep(r, d)
      /\ last' = Call("basket", NoComp, NoComp, L, r,
                   r.ok /\ d # Discard)

\* MealComponent(name, children)
NewMeal(name, L, d) ==
  LET r == MkBasket("M", name, "g", 0, L, 1)
  IN  /\ Keep(r, d)
      /\ last' = Call("meal", NoComp, NoComp, L, r,
                   r.ok /\ d # Discard)

DoAdd(x, y, d) ==
  LET r == Add(x, y, 1)
  IN  /\ Keep(r, d)
      /\ last' = Call("add", x, y, 0, r,
                   r.ok /\ d # Discard)

DoMul(x, k) ==
  LET r == Mul(x, k, 1)
  IN  /\ Inspect(r)
      /\ last' = Call("mul", x, NoComp, k, r,
                   FALSE)

RECURSIVE Divisible(_, _)
\* k divides every quantity of the tree: the quotient is exact
Divisible(c, k) ==
  /\ c.value % k = 0
  /\ \A a \in DOMAIN c.nut.m : c.nut.m[a] % k = 0
  /\ \A j \in 1..Len(c.kids) : Divisible(c.kids[j].c, k)

DoDiv(x, k) ==
  LET r == Div(x, k, 1)
  IN  /\ k > 0 => Divisible(x, k)
      /\ Inspect(r)
      /\ last' = Call("div", x, NoComp, k, r,
                   FALSE)

DoGetItem(x, keys) ==
  LET r == GetItem(x, keys, 1)
  IN  /\ Inspect(r)
      /\ last' = Call("getitem", x, NoComp, keys, r,
                   FALSE)

DoLoc(x, names) ==
  LET r == Loc(x, names, 1)
  IN  /\ x.kind # "I"
      /\ Inspect(r)
      /\ last' = Call("loc", x, NoComp, names, r,
                   FALSE)

DoConvert2Ingre(x, name) ==
  LET r == Convert2Ingre(x, name, 1)
  IN  /\ x.kind # "I"
      /\ Inspect(r)
      /\ last' = Call("convert2ingre", x, NoComp, name, r,
                   FALSE)

DoConvert2Meal(x, name, d) ==
  LET r == Convert2Meal(x, name, 1)
  IN  /\ x.kind # "I"
      /\ Keep(r, d)
      /\ last' = Call("convert2meal", x, NoComp, name, r,
                   r.ok /\ d # Discard)

DoFlatten(x) ==
  LET r == Flatten(x, 1)
  IN  /\ x.kind = "M"
      /\ Inspect(r)
      /\ last' = Call("flatten", x, NoComp, 0, r,
                   FALSE)

DoAddChildren(b, L) ==
  LET r == AddChildren(b, L, 1)
  IN  /\ b.kind = "B"
      /\ Mutate(b, r)
      /\ last' = Call("add_children", b, NoComp, L, r,
                   TRUE)

DoDelChild(b, key) ==
  LET r == DelChild(b, key, 1)
  IN  /\ b.kind = "B"
      /\ Mutate(b, r)
      /\ last' = Call("del_child", b, NoComp, key, r,
                   TRUE)

\* del ingredient[a]: IngredientComponent.__delitem__ deletes from the
\* ingredient's Nutrients object in place
DoDelNutrient(x, a) ==
  LET ok == ~x.nut.zero /\ a \in DOMAIN x.nut.m
  IN  /\ x.kind = "I"
      /\ Ready
      /\ calls < MaxCalls
      /\ calls' = calls + 1
      /\ pool' = IF ok THEN {DelNutIn(c, x.nut.id, a) : c \in pool} ELSE pool
      /\ last' = [op |-> "del_nutrient", x |-> x, y |-> NoComp, arg |-> a,
                  ok |-> ok,
                  res |-> IF ok THEN DelNutIn(x, x.nut.id, a) ELSE x,
                  kept |-> TRUE]
      /\ UNCHANGED <<heap, tlast, box, nlast>>

Init ==
  /\ pool = {}
  /\ calls = 0
  /\ last = NoCall
  /\ heap = <<>>
  /\ tlast = NoCall
  /\ box = NewBox("core")
  /\ nlast = NNoCall

\* the components add_children accepts: IngredientComponent, MealComponent
Addable == {c \in pool : c.kind \in {"I", "M"}}

\* what a result can be bound to
Targets == pool \cup {NoComp, Discard}

Next ==
  \/ \E s \in 1..Len(Catalogue), d \in Targets : Retrieve(s, d)
  \/ \E L \in {<<>>} \cup CompLists(Addable), d \in Targets : NewBasket(L, d)
  \/ \E x, y \in pool, d \in Targets : DoAdd(x, y, d)
  \/ \E x \in pool, k \in Scalars : DoMul(x, k)
  \/ \E x \in pool, k \in Scalars : DoDiv(x, k)
  \/ \E x \in pool, keys \in (SUBSET Abbrs) \ {{}} : DoGetItem(x, keys)
  \/ \E x \in pool, names \in NameLists : DoLoc(x, names)
  \/ \E x \in pool : DoConvert2Ingre(x, "X")
  \/ \E x \in pool, name \in MealNames, d \in Targets :
       DoConvert2Meal(x, name, d)
  \/ \E b \in pool, L \in CompLists(Addable) : DoAddChildren(b, L)
  \/ \E b \in pool, key \in Names : DoDelChild(b, key)
  \/ \E x \in pool, a \in Abbrs : DoDelNutrient(x, a)

Spec == Init /\ [][Next]_vars

\* the client that rebuilds meals from stored records (db.py): it retrieves
\* ingredients, constructs meals of ingredients and meals, and flattens
MealNext ==
  \/ \E s \in 1..Len(Catalogue), d \in Targets : Retrieve(s, d)
  \/ \E name \in MealNames, L \in {<<>>} \cup CompLists(Addable),
        d \in Targets :
       NewMeal(name, L, d)
  \/ \E x \in pool : DoFlatten(x)

SpecMeal == Init /\ [][MealNext]_vars

\* the units and the metadata a Basket or a Meal is constructed with; 0 is
\* the empty dict of the default
AggUnits == {"g", "kg"}

AggMetas == {0, 1}

\* BasketComponent(name, children, unit) and
\* MealComponent(name, children, unit, meta)
NewAggregate(kind, name, unit, meta, L, d) ==
  LET r == MkBasket(kind, name, unit, meta, L, 1)
  IN  /\ kind = "B" => meta = 0
      /\ Keep(r, d)
      /\ last' = Call("aggregate", NoComp, NoComp, L, r,
                   r.ok /\ d # Discard)

\* the client that scales the ingredients, Baskets and Meals it has built
ScaleNext ==
  \/ \E s \in 1..Len(Catalogue), d \in Targets : Retrieve(s, d)
  \/ \E kind \in {"B", "M"}, unit \in AggUnits, meta \in AggMetas,
        L \in CompLists({c \in pool : c.kind = "I"}), d \in Targets :
       NewAggregate(kind, "M", unit, meta, L, d)
  \/ \E x \in pool, k \in Scalars : DoMul(x, k)
  \/ \E x \in pool, k \in Scalars : DoDiv(x, k)

SpecScale == Init /\ [][ScaleNext]_vars

\* x - y for two Ingredients the client holds
DoSub(x, y) ==
  LET r == Sub(x, y, 1)
  IN  /\ x.kind = "I"
      /\ Inspect(r)
      /\ last' = Call("sub", x, y, 0, r,
                   FALSE)

\* the client that adds and subtracts the ingredients it retrieves
SubNext ==
  \/ \E s \in 1..Len(Catalogue), d \in Targets : Retrieve(s, d)
  \/ \E x, y \in pool, d \in Targets : DoAdd(x, y, d)
  \/ \E x, y \in pool : DoSub(x, y)

SpecSub == Init /\ [][SubNext]_vars

(***************************************************************************)
(* One call of add, frame by frame.  last holds the call in progress: its  *)
(* operands and, in arg, the number of add frames on the stack.            *)
(***************************************************************************)
\* the number of add frames followed; every further frame is the same
\* call once more
MaxDepth == 3

\* ingredient s of the catalogue, its nutrients the object i
Operand(s, i) ==
  Ingr(Catalogue[s].name, Catalogue[s].value, Catalogue[s].unit,
       Catalogue[s].meta, Nut(i, Catalogue[s].m))

\* the operands of the call: the ingredients and the Meals of one of them
Operands(i) ==
  {Operand(s, i) : s \in 1..Len(Catalogue)} \cup
  {MkBasket("M", name, "g", 0, <<Operand(s, i)>>, i + 1).c :
     name \in MealNames, s \in 1..Len(Catalogue)}

\* the frame of add(x, y) on top of the stack builds
\* BasketComponent(children=[x, y]); add_children finds the name of y
\* stored and evaluates children[name] + y, the call add(x, y) once more
AddNests ==
  /\ last.op \in {"operands", "adding"}
  /\ Diverges(last.x, last.y)
  /\ last.arg < MaxDepth
  /\ last' = [last EXCEPT !.op = "adding", !.arg = last.arg + 1]
  /\ UNCHANGED <<pool, calls, heap, tlast, box, nlast>>

\* add(x, y) returns its result or raises: no add frame is left
AddReturns ==
  /\ last.op \in {"operands", "adding"}
  /\ ~Diverges(last.x, last.y)
  /\ last' = Call("added", last.x, last.y, last.arg, Add(last.x, last.y, 7),
                  FALSE)
  /\ UNCHANGED <<pool, calls, heap, tlast, box, nlast>>

RunInit ==
  /\ \E x \in Operands(1), y \in Operands(4) :
       last = Call("operands", x, y, 0, Ok(NoComp, 7), FALSE)
  /\ pool = {}
  /\ calls = 0
  /\ heap = <<>>
  /\ tlast = [op |-> "none"]
  /\ box = NewBox("core")
  /\ nlast = NNoCall

RunNext == AddNests \/ AddReturns

\* a frame that can take its next step takes it
SpecRun == RunInit /\ [][RunNext]_vars /\ WF_vars(RunNext)

(***************************************************************************)
(* component.py: Composite and Ingredient.  The heap is the sequence of    *)
(* the objects the client has created; an object is referred to by its     *)
(* position.  An object is a record                                        *)
(*   kind : "I" Ingredient, "C" Composite                                  *)
(*   name, value (_value, Ingredient only), nut (_nutrients per 100 g,     *)
(*   Ingredient only), kids (_children: a sequence of [key, ref])          *)
(* Quantity and nutrients of a Composite are properties computed from its  *)
(* children on every read.                                                 *)
(***************************************************************************)
\* largest number of calls of the client of component.py
MaxTreeCalls == 4

\* Ingredient.__init__
TIngredient(name, nut) ==
  [kind |-> "I", name |-> name, value |-> 100, nut |-> nut, kids |-> <<>>]

\* position of key in _children, 0 when absent
TKeyIdx(kids, key) ==
  IF \E j \in 1..Len(kids) : kids[j].key = key
  THEN CHOOSE j \in 1..Len(kids) : kids[j].key = key
  ELSE 0

RECURSIVE TAddKids(_, _, _, _)
\* Composite.add_children: self._children[component.name] = component for
\* every component; an existing key keeps its position and gets the new
\* component
TAddKids(kids, refs, h, j) ==
  IF j > Len(refs) THEN kids
  ELSE LET key == h[refs[j]].name
           at == TKeyIdx(kids, key)
       IN  TAddKids(IF at = 0
                    THEN Append(kids, [key |-> key, ref |-> refs[j]])
                    ELSE [kids EXCEPT ![at].ref = refs[j]],
                    refs, h, j + 1)

\* Composite.__init__
TComposite(name, refs, h) ==
  [kind |-> "C", name |-> name, value |-> 0, nut |-> <<>>,
   kids |-> TAddKids(<<>>, refs, h, 1)]

RECURSIVE Reach(_, _)
\* the objects of the tree of r
Reach(h, r) ==
  {r} \cup UNION {Reach(h, h[r].kids[j].ref) : j \in 1..Len(h[r].kids)}

RECURSIVE TValue(_, _)
\* the value property: _value of an Ingredient, the sum over the children
\* of a Composite (0 without children)
TValue(h, r) ==
  LET RECURSIVE Below(_)
      Below(j) == IF j > Len(h[r].kids) THEN 0
                  ELSE TValue(h, h[r].kids[j].ref) + Below(j + 1)
  IN  IF h[r].kind = "I" THEN h[r].value ELSE Below(1)

\* copy.copy in the place of copy.deepcopy: a new root that shares the
\* children
ShallowCopy(h, r) == [h |-> Append(h, h[r]), ref |-> Len(h) + 1]

\* copy.deepcopy(self): every object of the tree is copied once, the copies
\* refer to each other
DeepCopy(h, r) ==
  LET S == Reach(h, r)
      new(o) == Len(h) + Cardinality({q \in S : q <= o})
      old(n) == CHOOSE o \in S : new(o) = Len(h) + n
      copy(o) ==
        [h[o] EXCEPT !.kids = [j \in 1..Len(h[o].kids) |->
                                 [key |-> h[o].kids[j].key,
                                  ref |-> new(h[o].kids[j].ref)]]]
  IN  [h |-> h \o [n \in 1..Cardinality(S) |-> copy(old(n))],
       ref |-> new(r)]

\* the values handed to set_value: a number or a list of values
Sc(v) == [list |-> FALSE, v |-> v, items |-> <<>>]

Li(items) == [list |-> TRUE, v |-> 0, items |-> items]

RECURSIVE SetIn(_, _, _), SetKids(_, _, _, _)

\* the loop of Composite.set_value over zip(children, other) from position
\* j, each step child.set_value(new_value, in_place=True); an exception
\* leaves the children done so far changed
SetKids(h, r, items, j) ==
  IF j > Len(items) THEN [ok |-> TRUE, h |-> h]
  ELSE LET q == SetIn(h, h[r].kids[j].ref, items[j])
       IN  IF ~q.ok THEN q ELSE SetKids(q.h, r, items, j + 1)

\* set_value(other, in_place=True): Ingredient.set_value stores other;
\* Composite.set_value raises TypeError for a number and ValueError for a
\* list of another length than the children
SetIn(h, r, other) ==
  IF h[r].kind = "I" THEN [ok |-> TRUE, h |-> [h EXCEPT ![r].value = other.v]]
  ELSE IF ~other.list THEN [ok |-> FALSE, h |-> h]
  ELSE IF Len(other.items) # Len(h[r].kids) THEN [ok |-> FALSE, h |-> h]
  ELSE SetKids(h, r, other.items, 1)

\* set_value(other, in_place=False): the checks of Composite.set_value
\* come before the copy; the copy is changed and returned, ret = 0 stands
\* for an exception.  The copy of a failed call is garbage: the heap keeps
\* the objects it had.
SetCopy(h, r, other) ==
  IF h[r].kind = "C" /\ (~other.list \/ Len(other.items) # Len(h[r].kids))
  THEN [ok |-> FALSE, h |-> h, ret |-> 0]
  ELSE LET d == DeepCopy(h, r)
           q == SetIn(d.h, d.ref, other)
       IN  IF q.ok THEN [ok |-> TRUE, h |-> q.h, ret |-> d.ref]
           ELSE [ok |-> FALSE, h |-> SubSeq(q.h, 1, Len(h)), ret |-> 0]

RECURSIVE DelKeys(_, _, _)
\* Composite.remove_children: del self._children[key] for every key; a
\* KeyError leaves the keys deleted so far deleted
DelKeys(kids, keys, j) ==
  IF j > Len(keys) THEN [ok |-> TRUE, kids |-> kids]
  ELSE LET at == TKeyIdx(kids, keys[j])
       IN  IF at = 0 THEN [ok |-> FALSE, kids |-> kids]
           ELSE DelKeys([i \in 1..(Len(kids) - 1) |->
                           IF i < at THEN kids[i] ELSE kids[i + 1]],
                        keys, j + 1)

RECURSIVE TNutrients(_, _)
\* the nutrients property: _nutrients * _value / 100 of an Ingredient,
\* Nutrients.sum over the children of a Composite (Nutrients() without
\* children)
TNutrients(h, r) ==
  IF h[r].kind = "I"
  THEN [abbr \in DOMAIN h[r].nut |-> (h[r].nut[abbr] * h[r].value) \div 100]
  ELSE IF h[r].kids = <<>> THEN <<>>
  ELSE PSum([j \in 1..Len(h[r].kids) |-> TNutrients(h, h[r].kids[j].ref)])

\* Ingredient.slice_nutrients: the nutrients property of the copy, sliced,
\* becomes the _nutrients of the copy
SliceIngredient(h, r, keys) ==
  LET d == DeepCopy(h, r)
      out_nuts == PGetItem(TNutrients(d.h, d.ref), keys)
  IN  IF out_nuts.ok
      THEN [ok |-> TRUE, h |-> [d.h EXCEPT ![d.ref].nut = out_nuts.m],
            ret |-> d.ref]
      ELSE [ok |-> FALSE, h |-> h, ret |-> 0]

RECURSIVE TSlice(_, _, _), SliceKids(_, _, _, _, _)

\* the loop of Composite.slice_nutrients from child j: the child is
\* replaced by child.slice_nutrients(*nut_list), a copy of its own; kids
\* are the children of the result so far
SliceKids(h, r, keys, j, kids) ==
  IF j > Len(h[r].kids) THEN [ok |-> TRUE, h |-> h, kids |-> kids]
  ELSE LET q == TSlice(h, h[r].kids[j].ref, keys)
       IN  IF ~q.ok THEN [ok |-> FALSE, h |-> h, kids |-> kids]
           ELSE SliceKids(q.h, r, keys, j + 1,
                          Append(kids, [key |-> h[r].kids[j].key,
                                        ref |-> q.ret]))

\* slice_nutrients(*nut_list); ret = 0 stands for the KeyError.  The
\* Composite is deep copied and every child of the copy is replaced by its
\* slice: the copies of the children the loop replaces are garbage, the
\* heap gets the copy of the root and the slices.
TSlice(h, r, keys) ==
  IF h[r].kind = "I" THEN SliceIngredient(h, r, keys)
  ELSE LET q == SliceKids(h, r, keys, 1, <<>>)
       IN  IF ~q.ok THEN [ok |-> FALSE, h |-> h, ret |-> 0]
           ELSE [ok |-> TRUE,
                 h |-> Append(q.h, [h[r] EXCEPT !.kids = q.kids]),
                 ret |-> Len(q.h) + 1]

(***************************************************************************)
(* The client of component.py.  tlast records the latest call; before is   *)
(* the heap the call started from.                                         *)
(***************************************************************************)
TNames == {"a", "b"}

CNames == {"c", "d"}

\* nutrients per 100 g of the ingredients the client creates
TNut == [a \in {"PROCNT", "CBH"} |-> IF a = "PROCNT" THEN 400 ELSE 200]

\* the nut_list arguments of slice_nutrients
NutLists == {<<"PROCNT">>, <<"CBH", "PROCNT">>, <<"LIP">>}

TScalars == {Sc(50), Sc(200)}

\* the lists handed to set_value: up to two values, a value a number or a
\* list of one number
TItems == TScalars \cup {Li(<<s>>) : s \in TScalars}

TOthers ==
  TScalars \cup {Li(<<>>)} \cup {Li(<<a>>) : a \in TItems}
           \cup {Li(<<a, b>>) : <<a, b>> \in TItems \X TItems}

\* lists of one or two objects of the heap
RefLists ==
  {<<a>> : a \in DOMAIN heap} \cup
  {<<a, b>> : <<a, b>> \in {q \in (DOMAIN heap) \X (DOMAIN heap) :
                              q[1] # q[2]}}

KeyLists ==
  {<<a>> : a \in TNames \cup CNames} \cup
  {<<a, b>> : <<a, b>> \in {q \in (TNames \cup CNames) \X (TNames \cup CNames) :
                              q[1] # q[2]}}

\* the client never makes a composite its own descendant
NoCycle(h, c, refs) == \A j \in 1..Len(refs) : c \notin Reach(h, refs[j])

RECURSIVE Fits(_, _, _)
\* the client hands numbers, not lists, to an Ingredient
Fits(h, r, other) ==
  IF h[r].kind = "I" THEN ~other.list
  ELSE (other.list /\ Len(other.items) = Len(h[r].kids)) =>
         \A j \in 1..Len(other.items) :
           Fits(h, h[r].kids[j].ref, other.items[j])

TCall(op, self, arg, inPlace, ok, ret, before) ==
  [op |-> op, self |-> self, arg |-> arg, in_place |-> inPlace, ok |-> ok,
   ret |-> ret, before |-> before]

TNoCall == TCall("none", 0, 0, FALSE, TRUE, 0, <<>>)

\* one more call of the client
Step ==
  /\ calls < MaxTreeCalls
  /\ calls' = calls + 1

NewIngredient(name) ==
  /\ Step
  /\ heap' = Append(heap, TIngredient(name, TNut))
  /\ tlast' = TCall("ingredient", 0, name, FALSE, TRUE, Len(heap) + 1, <<>>)
  /\ UNCHANGED <<pool, last, box, nlast>>

NewComposite(name, refs) ==
  /\ Step
  /\ heap' = Append(heap, TComposite(name, refs, heap))
  /\ tlast' = TCall("composite", 0, refs, FALSE, TRUE, Len(heap) + 1, <<>>)
  /\ UNCHANGED <<pool, last, box, nlast>>

\* Composite.add_children; Ingredient.add_children raises TypeError
TAddChildren(c, refs) ==
  /\ Step
  /\ NoCycle(heap, c, refs)
  /\ heap' = IF heap[c].kind = "C"
             THEN [heap EXCEPT ![c].kids = TAddKids(@, refs, heap, 1)]
             ELSE heap
  /\ tlast' = TCall("add_children", c, refs, TRUE, heap[c].kind = "C", 0,
                    heap)
  /\ UNCHANGED <<pool, last, box, nlast>>

\* Composite.remove_children; Ingredient.remove_children raises TypeError
TRemoveChildren(c, keys) ==
  LET q == DelKeys(heap[c].kids, keys, 1)
  IN  /\ Step
      /\ heap' = IF heap[c].kind = "C"
                 THEN [heap EXCEPT ![c].kids = q.kids]
                 ELSE heap
      /\ tlast' = TCall("remove_children", c, keys, TRUE,
                        heap[c].kind = "C" /\ q.ok, 0, <<>>)
      /\ UNCHANGED <<pool, last, box, nlast>>

\* Composite.set_value and Ingredient.set_value, in_place = True: the tree
\* is changed and None (ret = 0) is returned
SetValueInPlace(r, other) ==
  LET q == SetIn(heap, r, other)
  IN  /\ Step
      /\ Fits(heap, r, other)
      /\ heap' = q.h
      /\ tlast' = TCall("set_value", r, other, TRUE, q.ok, 0, heap)
      /\ UNCHANGED <<pool, last, box, nlast>>

\* Composite.set_value and Ingredient.set_value, in_place = False
SetValue(r, other) ==
  LET q == SetCopy(heap, r, other)
  IN  /\ Step
      /\ Fits(heap, r, other)
      /\ heap' = q.h
      /\ tlast' = TCall("set_value", r, other, FALSE, q.ok, q.ret, heap)
      /\ UNCHANGED <<pool, last, box, nlast>>

\* Composite.slice_nutrients and Ingredient.slice_nutrients
SliceNutrients(r, keys) ==
  LET q == TSlice(heap, r, keys)
  IN  /\ Step
      /\ heap' = IF q.ok THEN q.h ELSE heap
      /\ tlast' = TCall("slice_nutrients", r, keys, FALSE, q.ok, q.ret, heap)
      /\ UNCHANGED <<pool, last, box, nlast>>

TInit ==
  /\ heap = <<>>
  /\ tlast = TNoCall
  /\ pool = {}
  /\ calls = 0
  /\ last = NoCall
  /\ box = NewBox("core")
  /\ nlast = NNoCall

TNext ==
  \/ \E name \in TNames : NewIngredient(name)
  \/ \E name \in CNames, refs \in {<<>>} \cup RefLists :
       NewComposite(name, refs)
  \/ \E c \in DOMAIN heap, refs \in RefLists : TAddChildren(c, refs)
  \/ \E c \in DOMAIN heap, keys \in KeyLists : TRemoveChildren(c, keys)
  \/ \E r \in DOMAIN heap, other \in TOthers : SetValueInPlace(r, other)
  \/ \E r \in DOMAIN heap, other \in TOthers : SetValue(r, other)
  \/ \E r \in DOMAIN heap, keys \in NutLists : SliceNutrients(r, keys)

SpecTree == TInit /\ [][TNext]_vars

(***************************************************************************)
(* The metadata of the components of core/composite.py.  A meta attribute  *)
(* is a reference to a dict object; heap is the sequence of the dict       *)
(* objects (key -> value), pool the components the client holds, each with *)
(* the reference it stores in self.meta.  The dict objects 1 and 2 are the *)
(* default values of the meta parameter of IngredientComponent.__init__    *)
(* and of MealComponent.__init__, evaluated once when the class is made.   *)
(***************************************************************************)
\* the number of components the client holds
MaxComps == 3

IngredientDefault == 1

MealDefault == 2

\* the dict a caller hands as meta
GivenMeta == [key \in {"id"} |-> 1]

\* the dict Component.__init__ makes: dict()
EmptyMeta == [key \in {} |-> 0]

MetaKeys == {"collection"}

MetaValues == {1, 2}

\* self.meta[key] = value
Assigned(dict, key, value) ==
  [k \in DOMAIN dict \cup {key} |-> IF k = key THEN value ELSE dict[k]]

MComp(id, kind, name, meta) ==
  [id |-> id, kind |-> kind, name |-> name, meta |-> meta]

NextComp == Cardinality(pool) + 1

MCall(op, x) == [op |-> op, x |-> x, before |-> heap]

\* a constructor or an operator has made component c; dicts are the dict
\* objects made on the way that are still referenced
Made(op, c, dicts) ==
  /\ Cardinality(pool) < MaxComps
  /\ pool' = pool \cup {c}
  /\ heap' = heap \o dicts
  /\ tlast' = MCall(op, c.id)
  /\ UNCHANGED <<calls, last, box, nlast>>

\* IngredientComponent(name, value, nutrients) and
\* IngredientComponent(name, value, nutrients, meta={...}): self.meta = meta
\* replaces the dict Component.__init__ made
MNewIngredient(name, explicit) ==
  IF explicit
  THEN Made("ingredient", MComp(NextComp, "I", name, Len(heap) + 1),
            <<GivenMeta>>)
  ELSE Made("ingredient", MComp(NextComp, "I", name, IngredientDefault), <<>>)

\* MealComponent(name, children) and MealComponent(name, children,
\* meta={...}): self.meta = meta replaces the dict Component.__init__ made
MNewMeal(name, explicit) ==
  IF explicit
  THEN Made("meal", MComp(NextComp, "M", name, Len(heap) + 1), <<GivenMeta>>)
  ELSE Made("meal", MComp(NextComp, "M", name, MealDefault), <<>>)

\* x + y for two Ingredients (the unit of all is g): for the same name
\* and equal metadata an Ingredient with meta=self.meta, for another name
\* the Basket MyBasket with the dict of Component.__init__
MAdd(x, y) ==
  /\ x.kind = "I" /\ y.kind = "I"
  /\ IF x.name = y.name
     THEN /\ heap[x.meta] = heap[y.meta]
          /\ Made("add", MComp(NextComp, "I", x.name, x.meta), <<>>)
     ELSE Made("add", MComp(NextComp, "B", "MyBasket", Len(heap) + 1),
               <<EmptyMeta>>)

\* x * scalar, x / scalar: the Ingredient passes meta=self.meta, the
\* Basket and the Meal pass no meta to the constructor
MScale(x) ==
  CASE x.kind = "I" ->
         Made("scale", MComp(NextComp, "I", x.name, x.meta), <<>>)
    [] x.kind = "B" ->
         Made("scale", MComp(NextComp, "B", x.name, Len(heap) + 1),
              <<EmptyMeta>>)
    [] x.kind = "M" ->
         Made("scale", MComp(NextComp, "M", x.name, MealDefault), <<>>)

\* Component.insert_meta(key, value)
InsertMeta(x, key, value) ==
  /\ heap' = [heap EXCEPT ![x.meta] = Assigned(heap[x.meta], key, value)]
  /\ tlast' = MCall("insert_meta", x.id)
  /\ UNCHANGED <<pool, calls, last, box, nlast>>

MetaInit ==
  /\ heap = <<EmptyMeta, EmptyMeta>>
  /\ pool = {}
  /\ tlast = [op |-> "none", x |-> 0, before |-> <<EmptyMeta, EmptyMeta>>]
  /\ calls = 0
  /\ last = NoCall
  /\ box = NewBox("core")
  /\ nlast = NNoCall

MetaNext ==
  \/ \E name \in {"A", "B"}, explicit \in BOOLEAN :
       MNewIngredient(name, explicit)
  \/ \E name \in {"M"}, explicit \in BOOLEAN : MNewMeal(name, explicit)
  \/ \E x, y \in pool : MAdd(x, y)
  \/ \E x \in pool : MScale(x)
  \/ \E x \in pool, key \in MetaKeys, value \in MetaValues :
       InsertMeta(x, key, value)

SpecMeta == MetaInit /\ [][MetaNext]_vars


(***************************************************************************)
(* Properties of core/composite.py, stated on the record of the latest     *)
(* call (last) and on the components the client holds (pool).              *)
(***************************************************************************)
IsComp(c) == c.kind \in {"I", "B", "M"}

RECURSIVE SumMaps(_, _)
\* the intersect-sum of the nutrient mappings of the children from j on
SumMaps(kids, j) ==
  IF j = Len(kids) THEN kids[j].c.nut.m
  ELSE NMapAdd(kids[j].c.nut.m, SumMaps(kids, j + 1))

\* the intersect-sum of the children's nutrients; no children: no entries
IntersectSum(kids) == IF kids = <<>> THEN <<>> ELSE SumMaps(kids, 1)

ScaleMap(m, k) == [a \in DOMAIN m |-> k * m[a]]

RECURSIVE Subtrees(_)
\* the components of the tree of c
Subtrees(c) ==
  {c} \cup UNION {Subtrees(c.kids[j].c) : j \in 1..Len(c.kids)}

\* every component the client can reach: in the pool or in the result of
\* the latest call
Reachable ==
  UNION {Subtrees(c) : c \in pool \cup (IF IsComp(last.res) THEN {last.res}
                                        ELSE {})}

\* C1: after construction, add_children, child deletion and scalar
\* multiply/divide, a Basket or Meal (also one without children) holds a
\* Nutrients container equal to the intersect-sum of its children's
\* nutrients, and its quantity is the sum of its children's quantities.
\* last.res is the composite as the call left it.
C1_DerivationInvariant ==
  (/\ last.op \in {"basket", "convert2meal", "add_children", "del_child",
                   "mul", "div"}
   /\ last.res.kind \in {"B", "M"})
  => /\ ~last.res.nut.zero
     /\ last.res.nut.m = IntersectSum(last.res.kids)
     /\ last.res.value = SumValues(last.res.kids, 1)

\* C3: add of two Ingredients whose name, unit and metadata are not all
\* equal returns a new Basket with both operands as named children, whose
\* nutrients are the intersect-sum of the operands' nutrients.
C3_DifferentIdentityBasket ==
  (/\ last.op = "add"
   /\ last.x.kind = "I" /\ last.y.kind = "I"
   /\ ~SameIdentity(last.x, last.y))
  => /\ last.ok
     /\ last.res.kind = "B"
     /\ last.res.kids = << [key |-> last.x.name, c |-> last.x],
                           [key |-> last.y.name, c |-> last.y] >>
     /\ ~last.res.nut.zero
     /\ last.res.nut.m = NMapAdd(last.x.nut.m, last.y.nut.m)

\* C4: add of two Ingredients with equal name, unit and metadata returns
\* one Ingredient of that identity: its quantity is the sum of both
\* quantities, its nutrients are the intersect-sum of both operands'
\* nutrients in a container of its own, and the operands stay as they were
\* (the client still holds them, but for the variable it bound the result
\* to).
C4_SameIdentityMerge ==
  (/\ last.op = "add"
   /\ last.x.kind = "I" /\ last.y.kind = "I"
   /\ SameIdentity(last.x, last.y))
  => /\ last.ok
     /\ last.res.kind = "I"
     /\ last.res.name = last.x.name
     /\ last.res.unit = last.x.unit
     /\ last.res.meta = last.x.meta
     /\ last.res.value = last.x.value + last.y.value
     /\ ~last.res.nut.zero
     /\ last.res.nut.m = NMapAdd(last.x.nut.m, last.y.nut.m)
     /\ last.res.nut.id \notin {last.x.nut.id, last.y.nut.id}
     /\ ~last.kept => {last.x, last.y} \subseteq pool
     /\ last.kept =>
          Cardinality({last.x, last.y} \ pool) <= 1

\* two separately retrieved ingredients of one identity (60 g each) have
\* been added
C4_Witness ==
  /\ last.op = "add"
  /\ last.x.kind = "I" /\ last.y.kind = "I"
  /\ SameIdentity(last.x, last.y)
  /\ last.x.nut.id # last.y.nut.id
  /\ last.ok
  /\ last.res.value = 120

\* C5: an add with a Meal operand returns a new Basket that holds the Meal
\* as one child (under the Meal's name, its children not spliced in), and
\* the Meal operand is unchanged.
C5_MealOpaqueChild ==
  (/\ last.op = "add"
   /\ "M" \in {last.x.kind, last.y.kind})
  => /\ last.ok
     /\ last.res.kind = "B"
     /\ \A m \in {last.x, last.y} :
          m.kind = "M" =>
            /\ \E j \in 1..Len(last.res.kids) :
                 last.res.kids[j] = [key |-> m.name, c |-> m]
            /\ ~last.kept => m \in pool

\* C6: nutrient slicing, child selection, scalar multiply and divide and
\* convert2meal applied to a Meal (with children) never return a Basket
\* whose children are the Meal's children.
C6_MealStaysClosed ==
  (/\ last.op \in {"getitem", "loc", "mul", "div", "convert2meal"}
   /\ last.x.kind = "M"
   /\ last.x.kids # <<>>
   /\ last.ok)
  => ~(last.res.kind = "B" /\ KidList(last.res) = KidList(last.x))

\* C7: a Meal multiplied by a scalar k >= 0 is a Meal with the same child
\* names in the same order, every child's quantity and the total quantity
\* multiplied by k.
C7_MealScale ==
  (/\ last.op = "mul"
   /\ last.x.kind = "M"
   /\ last.arg >= 0)
  => /\ last.ok
     /\ last.res.kind = "M"
     /\ Len(last.res.kids) = Len(last.x.kids)
     /\ \A j \in 1..Len(last.x.kids) :
          /\ last.res.kids[j].key = last.x.kids[j].key
          /\ last.res.kids[j].c.value = last.arg * last.x.kids[j].c.value
     /\ last.res.value = last.arg * last.x.value

\* the Meal of A: 60 g and B: 40 g has been scaled by 2: 200 g
C7_Witness ==
  /\ last.op = "mul"
  /\ last.x.kind = "M"
  /\ last.arg = 2
  /\ Len(last.x.kids) = 2
  /\ last.x.kids[1].c.value = 60
  /\ last.x.kids[2].c.value = 40
  /\ last.ok
  /\ last.res.value = 200

\* C8: for every scalar k >= 0 and every component, the nutrients of the
\* component multiplied by k are the component's nutrients multiplied by k.
C8_ScaleLinearity ==
  (/\ last.op = "mul"
   /\ last.arg >= 0)
  => /\ last.ok
     /\ last.res.nut.zero = last.x.nut.zero
     /\ last.res.nut.m = ScaleMap(last.x.nut.m, last.arg)

\* C9: no two distinct components hold the same Nutrients container.
C9_ExclusiveNutrients ==
  \A c1, c2 \in Reachable :
    (c1 # c2 /\ ~c1.nut.zero /\ ~c2.nut.zero) => c1.nut.id # c2.nut.id

(***************************************************************************)
(* Properties of component.py, stated on the record of the latest call     *)
(* (tlast) and on the heap.                                                *)
(***************************************************************************)
RECURSIVE SumRefs(_, _, _)
\* the sum of the quantities of the components refs[j..]
SumRefs(h, refs, j) ==
  IF j > Len(refs) THEN 0 ELSE TValue(h, refs[j]) + SumRefs(h, refs, j + 1)

RECURSIVE Paths(_, _)
\* the number of paths from r into its tree
Paths(h, r) ==
  LET RECURSIVE Below(_)
      Below(j) == IF j > Len(h[r].kids) THEN 0
                  ELSE Paths(h, h[r].kids[j].ref) + Below(j + 1)
  IN  1 + Below(1)

\* no object occurs twice below r
IsTree(h, r) == Paths(h, r) = Cardinality(Reach(h, r))

RECURSIVE Applied(_, _, _)
\* the tree of r holds the values of other
Applied(h, r, other) ==
  IF h[r].kind = "I" THEN ~other.list /\ h[r].value = other.v
  ELSE /\ other.list
       /\ Len(other.items) = Len(h[r].kids)
       /\ \A j \in 1..Len(h[r].kids) :
            Applied(h, h[r].kids[j].ref, other.items[j])

RECURSIVE SameShape(_, _, _, _)
\* the trees of r1 in h1 and of r2 in h2 have the same kinds, names,
\* children keys and nutrients per 100 g
SameShape(h1, r1, h2, r2) ==
  /\ h1[r1].kind = h2[r2].kind
  /\ h1[r1].name = h2[r2].name
  /\ h1[r1].nut = h2[r2].nut
  /\ Len(h1[r1].kids) = Len(h2[r2].kids)
  /\ \A j \in 1..Len(h1[r1].kids) :
       /\ h1[r1].kids[j].key = h2[r2].kids[j].key
       /\ SameShape(h1, h1[r1].kids[j].ref, h2, h2[r2].kids[j].ref)

\* C2: add_children merges (sums) into a child of the same name: after
\* components that were not in the composite have been added, the child
\* names are unique and the quantity of the composite has grown by the
\* quantities of the components added.
C2_AddChildrenMerges ==
  (/\ tlast.op = "add_children"
   /\ tlast.ok
   /\ \A j \in 1..Len(tlast.arg) :
        tlast.arg[j] \notin Reach(tlast.before, tlast.self))
  => /\ \A i, j \in 1..Len(heap[tlast.self].kids) :
          i # j => heap[tlast.self].kids[i].key # heap[tlast.self].kids[j].key
     /\ TValue(heap, tlast.self) =
          TValue(tlast.before, tlast.self)
            + SumRefs(tlast.before, tlast.arg, 1)

\* C10: set_value with in_place = False leaves every object the call
\* started from as it was, also when it fails, and on success returns a
\* structure of new objects of the same shape; with in_place = True it
\* returns None and changes the structure itself.  The changed structure
\* holds the new values (stated where no object occurs twice in it: a
\* shared child keeps the value it was handed last).
C10_SetValueFrame ==
  tlast.op = "set_value"
  => IF tlast.in_place
     THEN /\ tlast.ret = 0
          /\ tlast.ok =>
               /\ SameShape(tlast.before, tlast.self, heap, tlast.self)
               /\ IsTree(tlast.before, tlast.self) =>
                    Applied(heap, tlast.self, tlast.arg)
     ELSE /\ SubSeq(heap, 1, Len(tlast.before)) = tlast.before
          /\ tlast.ok =>
               /\ tlast.ret \notin DOMAIN tlast.before
               /\ Reach(heap, tlast.ret) \cap DOMAIN tlast.before = {}
               /\ SameShape(tlast.before, tlast.self, heap, tlast.ret)
               /\ IsTree(tlast.before, tlast.self) =>
                    Applied(heap, tlast.ret, tlast.arg)

\* set_value(in_place=False) has failed inside the loop: the first child,
\* an Ingredient, took a new value and the second, a Composite, was handed
\* a number
C10_Witness ==
  /\ tlast.op = "set_value"
  /\ ~tlast.in_place
  /\ ~tlast.ok
  /\ heap[tlast.self].kind = "C"
  /\ tlast.arg.list
  /\ Len(tlast.arg.items) = 2
  /\ Len(heap[tlast.self].kids) = 2
  /\ heap[heap[tlast.self].kids[1].ref].kind = "I"
  /\ heap[heap[tlast.self].kids[1].ref].value # tlast.arg.items[1].v
  /\ heap[heap[tlast.self].kids[2].ref].kind = "C"

\* the container x restricted to the abbreviations of keys
Restricted(x, keys) ==
  [abbr \in {keys[j] : j \in 1..Len(keys)} \cap DOMAIN x |-> x[abbr]]

RECURSIVE SlicedOf(_, _, _, _, _)
\* the tree of r2 in h2 is the tree of r1 in h1 with the same names and
\* quantities, every Ingredient holding the nutrients of the original that
\* are in keys with their values, every Composite with children the sum
\* over its children
SlicedOf(h1, r1, h2, r2, keys) ==
  /\ h2[r2].kind = h1[r1].kind
  /\ h2[r2].name = h1[r1].name
  /\ TValue(h2, r2) = TValue(h1, r1)
  /\ Len(h2[r2].kids) = Len(h1[r1].kids)
  /\ h1[r1].kind = "I" =>
       TNutrients(h2, r2) = Restricted(TNutrients(h1, r1), keys)
  /\ (h1[r1].kind = "C" /\ h2[r2].kids # <<>>) =>
       TNutrients(h2, r2) =
         PSum([j \in 1..Len(h2[r2].kids) |->
                 TNutrients(h2, h2[r2].kids[j].ref)])
  /\ \A j \in 1..Len(h1[r1].kids) :
       /\ h2[r2].kids[j].key = h1[r1].kids[j].key
       /\ SlicedOf(h1, h1[r1].kids[j].ref, h2, h2[r2].kids[j].ref, keys)

\* C11: slice_nutrients returns a copy, the original left as it was, whose
\* nutrients are those of the original restricted to the keys, every
\* retained nutrient with the value it had, at any quantity of the
\* component; for a composite every child is sliced and the nutrients of
\* the composite are the sum over the sliced children.
C11_SliceKeepsValues ==
  (tlast.op = "slice_nutrients" /\ tlast.ok)
  => /\ SubSeq(heap, 1, Len(tlast.before)) = tlast.before
     /\ tlast.ret \notin DOMAIN tlast.before
     /\ Reach(heap, tlast.ret) \cap DOMAIN tlast.before = {}
     /\ SlicedOf(tlast.before, tlast.self, heap, tlast.ret, tlast.arg)

RECURSIVE Leaves(_)
\* the leaf Ingredients of the tree of c in depth-first order
Leaves(c) ==
  LET RECURSIVE From(_)
      From(j) == IF j > Len(c.kids) THEN <<>>
                 ELSE Leaves(c.kids[j].c) \o From(j + 1)
  IN  IF c.kind = "I" THEN <<c>> ELSE From(1)

\* C12: flatten of a Meal returns a Meal whose children are exactly the
\* leaf Ingredients of the tree in depth-first order, one child per leaf
\* under the leaf's name with the leaf's quantity, so that the total
\* quantity is that of the Meal (stated for a Meal without empty
\* composites in its tree).
C12_FlattenLeaves ==
  (/\ last.op = "flatten"
   /\ \A j \in 1..Len(FlattenList(last.x)) :
        FlattenList(last.x)[j].kind = "I")
  => /\ last.ok
     /\ last.res.kind = "M"
     /\ last.res.name = last.x.name
     /\ Len(last.res.kids) = Len(Leaves(last.x))
     /\ \A j \in 1..Len(last.res.kids) :
          /\ last.res.kids[j].c.kind = "I"
          /\ last.res.kids[j].key = Leaves(last.x)[j].name
          /\ last.res.kids[j].c.name = Leaves(last.x)[j].name
          /\ last.res.kids[j].c.value = Leaves(last.x)[j].value
     /\ last.res.value = last.x.value

(***************************************************************************)
(* Properties of the Nutrients containers, stated on the container (box)   *)
(* and on the record of the latest call (nlast).                           *)
(***************************************************************************)
\* the amount of a Nutrient in thousandths of the smallest unit of its type
Base(n) == n.value * Factor(n.unit)

\* C13: after any sequence of add_nutrients calls every abbreviation is
\* held once, and the entry of an abbreviation holds the sum of the amounts
\* of all Nutrients inserted under it: an insert under an abbreviation held
\* accumulates, it never overwrites.
C13_AddNutrientsAccumulates ==
  /\ \A i, j \in 1..Len(box.nutrients) :
       i # j => box.nutrients[i].abbr # box.nutrients[j].abbr
  /\ Keys(box.nutrients) = DOMAIN box.ins
  /\ \A j \in 1..Len(box.nutrients) :
       Base(box.nutrients[j]) = box.ins[box.nutrients[j].abbr]

\* add_nutrients has added 2 mg to an entry of 3 g: the entry holds 3.002 g
C13_Witness ==
  /\ nlast.op = "add_nutrients"
  /\ nlast.ok
  /\ "PROCNT" \in Keys(nlast.before.nutrients)
  /\ At(nlast.before.nutrients, "PROCNT") = Nutrient("PROCNT", 3000, "g")
  /\ At(box.nutrients, "PROCNT") = Nutrient("PROCNT", 3002, "g")

\* C14: the intersect merge (+ and -) returns a new container that holds
\* exactly the abbreviations of both operands, each with the sum or the
\* difference of the two amounts, and leaves the operands as they were;
\* for core/composite.py (add, sub) and for nutrient.py (padd).
C14_IntersectMerge ==
  /\ (nlast.op \in {"add", "sub"} /\ nlast.opt = "intersect" /\ nlast.ok)
     => /\ box = nlast.before
        /\ DOMAIN nlast.res = Keys(box.nutrients) \cap Keys(nlast.arg)
        /\ \A abbr \in DOMAIN nlast.res :
             Base(nlast.res[abbr]) =
               Base(At(box.nutrients, abbr))
                 + (IF nlast.op = "add" THEN 1 ELSE -1)
                     * Base(At(nlast.arg, abbr))
  /\ nlast.op = "padd"
     => /\ box = nlast.before
        /\ DOMAIN nlast.res = Keys(box.nutrients) \cap DOMAIN nlast.arg
        /\ \A abbr \in DOMAIN nlast.res :
             nlast.res[abbr] =
               At(box.nutrients, abbr).value + nlast.arg[abbr]

\* what the union merge gives for every abbreviation but those of the
\* second operand alone
UnionCommon ==
  /\ box = nlast.before
  /\ DOMAIN nlast.res = Keys(box.nutrients) \cup Keys(nlast.arg)
  /\ \A abbr \in Keys(box.nutrients) \cap Keys(nlast.arg) :
       Base(nlast.res[abbr]) =
         Base(At(box.nutrients, abbr))
           + (IF nlast.op = "add" THEN 1 ELSE -1) * Base(At(nlast.arg, abbr))
  /\ \A abbr \in Keys(box.nutrients) \ Keys(nlast.arg) :
       nlast.res[abbr] = At(box.nutrients, abbr)

C16_DivideNutrients ==
  nlast.op = "divide"
  => IF nlast.opt = "union" THEN ~nlast.ok /\ nlast.err = "ValueError"
     ELSE (\A abbr \in Keys(box.nutrients) \cap Keys(nlast.arg) :
             /\ find_type(At(box.nutrients, abbr).unit) =
                  find_type(At(nlast.arg, abbr).unit)
             /\ At(nlast.arg, abbr).value # 0)
          => /\ nlast.ok
             /\ DOMAIN nlast.res = Keys(box.nutrients) \cap Keys(nlast.arg)
             /\ \A abbr \in DOMAIN nlast.res :
                  nlast.res[abbr].value * Base(At(nlast.arg, abbr)) =
                    1000 * Base(At(box.nutrients, abbr))

\* C17: delete(keys) removes exactly the listed entries; with a listed key
\* absent it fails and the container is as it was before the call.
C17_DeleteAtomic ==
  nlast.op = "delete"
  => IF \A j \in 1..Len(nlast.arg) : nlast.arg[j] \in Keys(nlast.before.nutrients)
     THEN /\ nlast.ok
          /\ Keys(box.nutrients) =
               Keys(nlast.before.nutrients) \ {nlast.arg[j] : j \in 1..Len(nlast.arg)}
          /\ \A abbr \in Keys(box.nutrients) :
               At(box.nutrients, abbr) = At(nlast.before.nutrients, abbr)
     ELSE /\ ~nlast.ok
          /\ box.nutrients = nlast.before.nutrients

\* C18: unify_units(target_unit) returns every entry the container holds,
\* whatever add_nutrients and delete calls came before, with its amount in
\* target_unit and the same physical quantity; it fails if an entry is of
\* another type of unit than target_unit.
C18_UnifyUnits ==
  nlast.op = "unify_units"
  => IF \A j \in 1..Len(box.nutrients) :
          find_type(box.nutrients[j].unit) = find_type(nlast.arg)
     THEN /\ nlast.ok
          /\ Len(nlast.res) = Len(box.nutrients)
          /\ \A j \in 1..Len(box.nutrients) :
               /\ nlast.res[j].abbr = box.nutrients[j].abbr
               /\ nlast.res[j].unit = nlast.arg
               /\ Base(nlast.res[j]) = Base(box.nutrients[j])
     ELSE ~nlast.ok

\* the entries of s are in the order of key, descending with reverse
Ordered(s, key, reverse) ==
  \A i, j \in 1..Len(s) :
    i < j =>
      LET a == IF reverse THEN s[j] ELSE s[i]
          b == IF reverse THEN s[i] ELSE s[j]
      IN  IF key \in {"abbr", "name"}
          THEN AbbrRank(a.abbr) <= AbbrRank(b.abbr)
          ELSE find_type(a.unit) = find_type(b.unit) => Base(a) <= Base(b)

\* C19: sort(by, reverse) of a container with any number of entries
\* returns a new container with the same entries in the order of the key
\* (the value by default), descending with reverse, and leaves the order
\* of the container as it was.
C19_SortReorders ==
  nlast.op = "sort"
  => /\ nlast.ok
     /\ box = nlast.before
     /\ Len(nlast.res) = Len(box.nutrients)
     /\ {nlast.res[j] : j \in 1..Len(nlast.res)} =
          {box.nutrients[j] : j \in 1..Len(box.nutrients)}
     /\ Ordered(nlast.res, nlast.arg, nlast.opt)

PosIn(order, key) ==
  IF \E j \in 1..Len(order) : order[j] = key
  THEN CHOOSE j \in 1..Len(order) : order[j] = key
  ELSE 0

\* C21: key_matching(keys1, keys2, canonical_order) returns exactly the keys
\* of both key sets, each once, in the order of the canonical_order handed
\* (stated for key sets whose common keys are all in canonical_order).
C21_KeyMatching ==
  (/\ nlast.op = "key_matching"
   /\ \A key \in nlast.arg[1] \cap nlast.arg[2] : PosIn(nlast.arg[3], key) # 0)
  => /\ {nlast.res[j] : j \in 1..Len(nlast.res)} =
          nlast.arg[1] \cap nlast.arg[2]
     /\ \A i, j \in 1..Len(nlast.res) :
          i < j => PosIn(nlast.arg[3], nlast.res[i])
                     < PosIn(nlast.arg[3], nlast.res[j])

C23_AmountRatio ==
  nlast.op = "amount_div"
  => LET a == nlast.arg[1]
         b == nlast.arg[2]
     IN  IF find_type(a.unit) # find_type(b.unit)
         THEN ~nlast.ok /\ nlast.err = "TypeError"
         ELSE IF b.value = 0
         THEN ~nlast.ok /\ nlast.err = "ZeroDivisionError"
         ELSE /\ nlast.ok
              /\ Base(b) % 1000 = 0
              /\ nlast.res * (Base(b) \div 1000) = Base(a)

\* 10 g / 10 mg = 1000
C23_Witness ==
  /\ nlast.op = "amount_div"
  /\ nlast.arg[1] = [value |-> 10000, unit |-> "g"]
  /\ nlast.arg[2] = [value |-> 10000, unit |-> "mg"]
  /\ nlast.ok
  /\ nlast.res = 1000000

\* C24: mul with a scalar that is not a number or is negative, and div
\* with a scalar that is not a number or not above 0, fail and return no
\* Amount.
C24_ScalarRange ==
  /\ (nlast.op = "amount_mul" /\ (~nlast.arg[3].num \/ nlast.arg[3].v < 0))
     => ~nlast.ok
  /\ (nlast.op = "amount_div_scalar"
      /\ (~nlast.arg[3].num \/ nlast.arg[3].v <= 0))
     => ~nlast.ok

\* C25: dividing a Nutrient by a Nutrient of the same abbreviation (and
\* unit) whose value is 0 fails with a division-by-zero error, for the
\* Nutrient division and for the division of the containers that hold them;
\* no result is returned.
C25_DivisionByZeroPropagates ==
  (/\ nlast.op \in {"pnutrient_div", "pdivide"}
   /\ nlast.arg[1].abbr = nlast.arg[2].abbr
   /\ nlast.arg[1].unit = nlast.arg[2].unit
   /\ nlast.arg[2].value = 0)
  => ~nlast.ok /\ nlast.err = "ZeroDivisionError"

C27_SubDifference ==
  (/\ last.op = "sub"
   /\ last.y.kind = "I"
   /\ SameIdentity(last.x, last.y)
   /\ last.x.value >= last.y.value)
  => /\ last.ok
     /\ last.res.kind = "I"
     /\ last.res.value = last.x.value - last.y.value
     /\ \A a \in (DOMAIN last.x.nut.m) \cap (DOMAIN last.y.nut.m) :
          /\ a \in DOMAIN last.res.nut.m
          /\ last.res.nut.m[a] = last.x.nut.m[a] - last.y.nut.m[a]

\* C28: insert_meta on one Component changes only that Component's
\* metadata: the metadata of every other Component the client holds is
\* what it was before the call.
C28_InsertMetaFrame ==
  tlast.op = "insert_meta"
  => \A c \in pool :
       c.id # tlast.x => heap[c.meta] = tlast.before[c.meta]

\* C29: the derived attribute lists of a core Nutrients container describe
\* its current mapping after any sequence of add_nutrients and delete
\* calls: the list update_attrs made (nutrs, from which abbrs, values and
\* size are read) holds the current entries in order.
C29_DerivedAttrsCurrent ==
  box.impl = "core"
  => /\ Len(box.nutrs) = Len(box.nutrients)
     /\ \A j \in 1..Len(box.nutrients) :
          /\ box.nutrs[j].abbr = box.nutrients[j].abbr
          /\ box.nutrs[j].value = box.nutrients[j].value
          /\ box.nutrs[j].unit = box.nutrients[j].unit

\* C30: the Component returned by multiplying or dividing an Ingredient, a
\* Basket or a Meal by a scalar has the variant, the name, the unit and the
\* metadata of the original, and the original is as it was.
C30_ScaleKeepsIdentity ==
  (/\ last.op \in {"mul", "div"}
   /\ last.ok)
  => /\ last.res.kind = last.x.kind
     /\ last.res.name = last.x.name
     /\ last.res.unit = last.x.unit
     /\ last.res.meta = last.x.meta
     /\ last.x \in pool

====
